---- MODULE Spec2Model ----
(***************************************************************************)
(* A model of chat-mcp's tool-call engine (src/src/chat_mcp):              *)
(*   - parse_tool_use: extraction of tool-call intents from model text     *)
(*   - callMCPTool / call_mcp_tool: dispatch of one intent                 *)
(*   - execute_mcp_tool_calls: the batch used by the round loop            *)
(*   - parse_and_call_tools: the asyncio.gather batch with the registry    *)
(*   - complete_mcp_workflow: the bounded round loop                       *)
(*   - upsert_mcp_tool_response: the response registry and its sink        *)
(*   - MCPService.list_tools: the catalog cache and its time-to-live       *)
(*                                                                         *)
(* Texts are sequences of tokens (prose, <tool_use> blocks, tag soup the   *)
(* regular expression does not match).  Names and string arguments are     *)
(* sequences of characters so that str.strip() is computed.  The optional  *)
(* on_progress callback is None, and so is on_chunk inside the batch.      *)
(* events is a history variable: the log of the calls sent to the          *)
(* completion endpoint and to the tool servers, and of their returns.      *)
(***************************************************************************)
EXTENDS Integers, Sequences, FiniteSets, TLC

VARIABLES
    server_configs,     \* _server_configs: the registered server ids -> server
    pc,                 \* position of the running entry point
    max_iterations,     \* complete_mcp_workflow argument
    mcp_tools,          \* the catalog the run dispatches against
    current_messages,   \* the running transcript
    iteration,          \* number of completed loop iterations
    llm_response,       \* last ChatResponse, or Unbound
    tool_calls,         \* parsed intents of the current round / batch
    next_call,          \* index of the next intent the batch starts
    inflight,           \* indexes of intents whose call_tool has not returned
    tool_results,       \* results collected so far, in the order appended
    tool_responses,     \* the response registry of parse_and_call_tools
    gathered,           \* results of the finished tasks of the gather, by position
    outcome,            \* how the entry point ended
    events,             \* log of external calls and returns (history)
    parse_input,        \* the text handed to parse_tool_use
    chunks,             \* what the on_chunk sink has received
    tool_cache,         \* MCPService._tool_cache: server key -> tools
    cache_ttl,          \* MCPService._cache_ttl: server key -> time stored
    now,                \* time.time()
    pending,            \* list_tools calls awaiting _list_tools_impl
    locals              \* local variables of the entry point that is running

vars == <<server_configs, pc, max_iterations, mcp_tools, current_messages,
          iteration, llm_response, tool_calls, next_call, inflight,
          tool_results, tool_responses, gathered, outcome, events,
          parse_input, chunks, tool_cache, cache_ttl, now, pending, locals>>

-----------------------------------------------------------------------------
(* Bounds *)

MaxIterationsBound == 2
MaxBatch == 3

-----------------------------------------------------------------------------
(* Characters, names, JSON values *)

WS == " "

RECURSIVE LStrip(_)
LStrip(s) == IF s # <<>> /\ Head(s) = WS THEN LStrip(Tail(s)) ELSE s

RECURSIVE RStrip(_)
RStrip(s) ==
    IF s # <<>> /\ s[Len(s)] = WS THEN RStrip(SubSeq(s, 1, Len(s) - 1)) ELSE s

Strip(s) == RStrip(LStrip(s))

NameSearch == <<"search">>
NameCalc == <<"calc">>
NameGhost == <<"ghost">>

JNull == [type |-> "null"]
JStr(s) == [type |-> "str", s |-> s]
JList(n) == [type |-> "list", len |-> n]
JInt(n) == [type |-> "int", v |-> n]
JDict(f) == [type |-> "dict", map |-> f]

NoArgs == <<>>
ArgsQueryX == [k \in {"query"} |-> JStr(<<"x">>)]
ArgsNoisy == [k \in {"query", "lang", "tags"} |->
                 CASE k = "query" -> JStr(<<"x">>)
                   [] k = "lang" -> JStr(<<WS>>)
                   [] k = "tags" -> JList(0)]

(* The text between <parameters> and </parameters>. *)
PObject(f) == [json |-> "value", value |-> JDict(f)]
PArray == [json |-> "value", value |-> JList(1)]
PInvalid == [json |-> "invalid"]
PString == [json |-> "value", value |-> JStr(<<"x">>)]
PNumber == [json |-> "value", value |-> JInt(1)]
PNull == [json |-> "value", value |-> JNull]

(* json.loads *)
JsonLoads(p) ==
    IF p.json = "invalid"
    THEN [ok |-> FALSE]
    ELSE [ok |-> TRUE, value |-> p.value]

-----------------------------------------------------------------------------
(* Texts *)

Prose == [t |-> "prose"]
Soup == [t |-> "soup"]
Block(name, params) == [t |-> "block", name |-> name, params |-> params]

(* re.findall(pattern, content, re.DOTALL) *)
FindAll(content) == SelectSeq(content, LAMBDA tok : tok.t = "block")

RECURSIVE ParseFrom(_, _)
ParseFrom(matches, i) ==
    IF i > Len(matches)
    THEN <<>>
    ELSE LET j == JsonLoads(matches[i].params)
         IN  IF j.ok
             THEN <<[id |-> <<"parse", i - 1>>,
                     tool |-> [id |-> <<"call", i - 1>>,
                               name |-> Strip(matches[i].name),
                               arguments |-> j.value.map]]>>
                  \o ParseFrom(matches, i + 1)
             ELSE ParseFrom(matches, i + 1)

(* A block whose parameters are JSON but not an object fails the pydantic  *)
(* validation of MCPToolCall.arguments; only json.JSONDecodeError is       *)
(* caught, so the ValidationError leaves parse_tool_use.  The catalog       *)
(* argument is only scanned, never used.                                    *)
ParseRaises(content) ==
    \E i \in 1..Len(FindAll(content)) :
        LET j == JsonLoads(FindAll(content)[i].params)
        IN  j.ok /\ j.value.type # "dict"

(* the optional validation made binding: an unlisted name is dropped *)
ValidatedStrict(tool_name, tools) ==
    IF tools # <<>>
    THEN \E i \in 1..Len(tools) : tools[i].name = tool_name
    ELSE TRUE

(* lines 172-176: when the catalog is given (neither None nor empty, for   *)
(* both of which <<>> stands) it is scanned for the name, and the scan's   *)
(* finding is dropped: the intent is built either way.                      *)
Validated(tool_name, tools) ==
    IF tools # <<>> /\ \E i \in 1..Len(tools) : tools[i].name = tool_name
    THEN TRUE
    ELSE TRUE

parse_tool_use(content, tools) ==
    IF ParseRaises(content)
    THEN [raised |-> TRUE, tools |-> <<>>]
    ELSE [raised |-> FALSE,
          tools |-> SelectSeq(ParseFrom(FindAll(content), 1),
                              LAMBDA r : Validated(r.tool.name, tools))]

-----------------------------------------------------------------------------
(* Servers, discovery and the catalog *)

S1 == [id |-> "s1", name |-> "one", command |-> <<"a">>, args |-> <<>>,
       disabled_tools |-> {}]
S2 == [id |-> "s2", name |-> "two", command |-> <<"b">>, args |-> <<<<"x">>>>,
       disabled_tools |-> {NameGhost}]

Servers == {S1, S2}

(* What session.list_tools() of each server answers when it is reachable. *)
Offered(server) ==
    IF server.command = <<"a">>
    THEN <<NameSearch>>
    ELSE <<NameSearch, NameCalc, NameGhost>>

RECURSIVE JoinColon(_)
JoinColon(args) ==
    IF args = <<>> THEN <<>>
    ELSE IF Len(args) = 1 THEN args[1]
    ELSE args[1] \o <<":">> \o JoinColon(Tail(args))

(* the server id made part of the key *)
ServerKeyWithId(server) ==
    <<server.id>> \o <<":">> \o server.command \o <<":">> \o JoinColon(server.args)

(* MCPService._get_server_key: md5 of the joined string; the digest is     *)
(* taken to be injective, so the key is the string itself.                  *)
ServerKey(server) == server.command \o <<":">> \o JoinColon(server.args)

(* MCPService._list_tools_impl: a failure is swallowed into []. *)
ListToolsImpl(server, reachable) ==
    IF server.id \in reachable
    THEN [i \in 1..Len(Offered(server)) |->
             [name |-> Offered(server)[i],
              server_id |-> server.id,
              server_name |-> server.name]]
    ELSE <<>>

FilterDisabled(tools, disabled) ==
    IF disabled = {}
    THEN tools
    ELSE SelectSeq(tools, LAMBDA tool : tool.name \notin disabled)

(* MCPService.list_tools on a service whose cache is `cache`; no time      *)
(* passes inside one catalog assembly, so a stored entry is fresh.          *)
ListTools(server, cache, reachable) ==
    LET key == ServerKey(server)
    IN  IF key \in DOMAIN cache
        THEN [tools |-> cache[key], cache |-> cache]
        ELSE LET tools == FilterDisabled(ListToolsImpl(server, reachable),
                                         server.disabled_tools)
             IN  [tools |-> tools,
                  cache |-> [c \in DOMAIN cache \cup {key} |->
                                IF c = key THEN tools ELSE cache[c]]]

RECURSIVE CollectFrom(_, _, _)
CollectFrom(enabled, cache, reachable) ==
    IF enabled = <<>>
    THEN <<>>
    ELSE LET r == ListTools(Head(enabled), cache, reachable)
         IN  FilterDisabled(r.tools, Head(enabled).disabled_tools)
             \o CollectFrom(Tail(enabled), r.cache, reachable)

(* MCPToolCollector.collect_mcp_tools, on the fresh MCPService that the    *)
(* collector's constructor creates.                                         *)
collect_mcp_tools(enabled, reachable) == CollectFrom(enabled, <<>>, reachable)

-----------------------------------------------------------------------------
(* Dispatch of one intent *)

TextItem(text) == [type |-> "text", text |-> text]

IsPlaceholder(value) ==
    \/ value.type = "null"
    \/ value.type = "str" /\ Strip(value.s) = <<>>
    \/ value.type = "list" /\ value.len = 0

(* the cleaning test inverted: only the placeholders are kept *)
CleanArgumentsInverted(arguments) ==
    LET keep == {k \in DOMAIN arguments : IsPlaceholder(arguments[k])}
    IN  [k \in keep |-> arguments[k]]

(* callMCPTool lines 648-659 *)
CleanArguments(arguments) ==
    LET keep == {k \in DOMAIN arguments : ~IsPlaceholder(arguments[k])}
    IN  [k \in keep |-> arguments[k]]

(* the scan keeps the last descriptor with the name *)
FindToolLast(tool_name, tools) ==
    LET hits == {i \in 1..Len(tools) : tools[i].name = tool_name}
    IN  IF hits = {}
        THEN <<>>
        ELSE <<tools[CHOOSE i \in hits : \A h \in hits : h <= i]>>

(* lines 663-668 and 211-216: the first descriptor with the name *)
FindTool(tool_name, tools) ==
    LET hits == {i \in 1..Len(tools) : tools[i].name = tool_name}
    IN  IF hits = {}
        THEN <<>>
        ELSE <<tools[CHOOSE i \in hits : \A h \in hits : i <= h]>>

(* an unregistered id falls back on a default server *)
GetServerConfigDefault(configs, server_id) ==
    IF server_id \in DOMAIN configs THEN <<configs[server_id]>> ELSE <<S1>>

(* get_server_config / getMcpServerByTool *)
GetServerConfig(configs, server_id) ==
    IF server_id \in DOMAIN configs THEN <<configs[server_id]>> ELSE <<>>

(* the response of the except branch without its error flag *)
CallToolErrorUnflagged(tool_name, msg) ==
    [content |-> <<TextItem(<<"Error calling tool", tool_name, msg>>)>>,
     isError |-> FALSE]

(* callMCPTool lines 713-720 *)
CallToolError(tool_name, msg) ==
    [content |-> <<TextItem(<<"Error calling tool", tool_name, msg>>)>>,
     isError |-> TRUE]

(* callMCPTool up to the await of mcp_service.call_tool: either the        *)
(* request that is sent, or the error response of the except branch.        *)
ResolveCall(tool_name, arguments, tools, configs) ==
    LET cleaned == CleanArguments(arguments)
        target == FindTool(tool_name, tools)
    IN  IF target = <<>>
        THEN [send |-> FALSE,
              response |-> CallToolError(tool_name, "Tool not found")]
        ELSE LET server == GetServerConfig(configs, target[1].server_id)
             IN  IF server = <<>>
                 THEN [send |-> FALSE,
                       response |-> CallToolError(tool_name, "Server not found")]
                 ELSE [send |-> TRUE,
                       server |-> server[1],
                       name |-> tool_name,
                       arguments |-> cleaned]

(* What the call-tool collaborator can answer. *)
RawText == [raised |-> FALSE, content |-> <<[kind |-> "text", text |-> "t"]>>]
RawImage == [raised |-> FALSE,
             content |-> <<[kind |-> "image", data |-> "d", mimeType |-> "unset"]>>]
RawRaise == [raised |-> TRUE, message |-> "boom"]

ToolOutcomes == {RawText, RawImage, RawRaise}

NormalizeItem(item) ==
    CASE item.kind = "text" -> TextItem(item.text)
      [] item.kind = "image" ->
            [type |-> "image", data |-> item.data,
             mimeType |-> IF item.mimeType = "unset" THEN "image/png"
                          ELSE item.mimeType]
      [] item.kind = "dict" -> item.value
      [] OTHER -> TextItem(<<"str", item>>)

(* the failure of the invocation is swallowed into an empty success *)
FinishCallSwallows(tool_name, raw) ==
    IF raw.raised
    THEN [content |-> <<>>, isError |-> FALSE]
    ELSE [content |-> [i \in 1..Len(raw.content) |-> NormalizeItem(raw.content[i])],
          isError |-> FALSE]

(* callMCPTool after the await: lines 684-720 *)
FinishCall(tool_name, raw) ==
    IF raw.raised
    THEN CallToolError(tool_name, raw.message)
    ELSE [content |-> [i \in 1..Len(raw.content) |-> NormalizeItem(raw.content[i])],
          isError |-> FALSE]

-----------------------------------------------------------------------------
(* The model-completion collaborator and AIProvider.completions *)

Message(role, content, metadata, calls) ==
    [role |-> role, content |-> content, metadata |-> metadata,
     tool_calls |-> calls]

SystemMessage == Message("system", <<Prose>>, <<>>, <<>>)
UserMessage == Message("user", <<Prose>>, <<>>, <<>>)

InitialTranscripts == {<<SystemMessage, UserMessage>>, <<UserMessage>>}

TextDone == <<Prose, Soup>>
TextSearch == <<Block(NameSearch, PObject(ArgsQueryX))>>
TextTwo == <<Prose, Block(NameCalc, PObject(ArgsNoisy)),
             Prose, Block(<<WS>> \o NameSearch \o <<WS>>, PObject(ArgsQueryX))>>
TextGhost == <<Block(NameSearch, PInvalid), Block(NameGhost, PObject(NoArgs))>>
TextArray == <<Soup, Block(NameSearch, PArray)>>

ErrPlain == <<Prose>>
ErrBlock == <<Prose, Block(NameSearch, PObject(ArgsQueryX))>>
ErrArray == <<Block(NameSearch, PArray)>>

(* What litellm.acompletion can do: answer a text, or raise with a text. *)
CompletionOutcomes ==
    [raised : {FALSE}, text : {TextDone, TextSearch, TextTwo, TextGhost, TextArray}]
    \cup [raised : {TRUE}, text : {ErrPlain, ErrBlock, ErrArray}]

(* str() of the pydantic ValidationError: prose, no tag. *)
ValidationErrorText == <<Prose>>

ToolsOf(parsed) == [i \in 1..Len(parsed) |-> parsed[i].tool]

(* the metadata built without the parsed tool calls *)
SuccessResponseNoCalls(text, parsed, tools) ==
    [message |->
        Message("assistant", text,
                [mcp_tools |-> <<>>,
                 tool_calls_detected |-> 0,
                 parsed_tool_calls |-> <<>>],
                ToolsOf(parsed)),
     metrics |-> [step |-> 3, status |-> "ai_completion_success",
                  tool_calls_detected |-> Len(parsed)]]

(* AIProvider._sync_completion after a successful acompletion; None is     *)
(* written <<>>.                                                            *)
SuccessResponse(text, parsed, tools) ==
    [message |->
        Message("assistant", text,
                [mcp_tools |-> IF tools # <<>> THEN ToolsOf(parsed) ELSE <<>>,
                 tool_calls_detected |-> Len(parsed),
                 parsed_tool_calls |-> parsed],
                ToolsOf(parsed)),
     metrics |-> [step |-> 3, status |-> "ai_completion_success",
                  tool_calls_detected |-> Len(parsed)]]

(* The except branch of AIProvider.completions: lines 544-555. *)
ErrorResponse(error) ==
    [message |-> Message("assistant", <<Prose>> \o error, [error |-> error], <<>>),
     metrics |-> [step |-> 3, status |-> "ai_completion_error"]]

(* AIProvider.completions: every exception below the try, the one of       *)
(* acompletion and the one of parse_tool_use, becomes an error response.    *)
completions(o, tools) ==
    IF o.raised
    THEN ErrorResponse(o.text)
    ELSE LET p == parse_tool_use(o.text, tools)
         IN  IF p.raised
             THEN ErrorResponse(ValidationErrorText)
             ELSE SuccessResponse(o.text, p.tools, tools)

-----------------------------------------------------------------------------
(* complete_mcp_workflow *)

Unbound == [unbound |-> TRUE]
NoOutcome == [kind |-> "none"]

EnabledLists == {<<>>, <<S1>>, <<S2>>, <<S1, S2>>, <<S2, S1>>}

(* an off-by-one loop bound *)
InRangeInclusive(i, n) == i <= n

(* for iteration in range(max_iterations) *)
InRange(i, n) == i < n

(* the test on the parsed intents inverted *)
NoToolCallsInverted(calls) == calls # <<>>

(* if not tool_calls *)
NoToolCalls(calls) == calls = <<>>

(* the for loop waits for an invocation that was never started *)
MayStartNextWaits(flying) == flying # {}

(* execute_mcp_tool_calls awaits each callMCPTool before the next          *)
(* iteration of its for loop.                                               *)
MayStartNext(flying) == flying = {}

(* the batch handed back without awaiting the invocation still in flight *)
BatchCompleteNoJoin(next, calls, flying) == next > Len(calls)

(* execute_mcp_tool_calls returns after its loop, the workflow resumes. *)
BatchComplete(next, calls, flying) == next > Len(calls) /\ flying = {}

RECURSIVE ResultText(_)
ResultText(content) ==
    IF content = <<>>
    THEN <<>>
    ELSE (IF Head(content).type = "text"
          THEN <<Head(content).text>>
          ELSE <<<<"str", Head(content)>>>>) \o ResultText(Tail(content))

Response(r) == [content |-> r.content, isError |-> r.isError]

(* the observation sent with the privileged tool role *)
ToolMessageToolRole(tool_call, result) ==
    Message("tool",
            [tool_name |-> tool_call.tool.name,
             status |-> IF ~result.isError THEN "success" ELSE "failed",
             result_text |-> ResultText(result.content)],
            [tool_name |-> tool_call.tool.name,
             tool_result |-> Response(result),
             is_error |-> result.isError,
             message_type |-> "tool_result"],
            <<>>)

(* lines 866-879 *)
ToolMessage(tool_call, result) ==
    Message("user",
            [tool_name |-> tool_call.tool.name,
             status |-> IF ~result.isError THEN "success" ELSE "failed",
             result_text |-> ResultText(result.content)],
            [tool_name |-> tool_call.tool.name,
             tool_result |-> Response(result),
             is_error |-> result.isError,
             message_type |-> "tool_result"],
            <<>>)

Min(a, b) == IF a < b THEN a ELSE b

(* for (tool_call, result) in zip(tool_calls, tool_results) *)
ToolMessages(calls, results) ==
    [i \in 1..Min(Len(calls), Len(results)) |-> ToolMessage(calls[i], results[i])]

Tagged(response, i) ==
    [content |-> response.content, isError |-> response.isError, call |-> i]

NoLocals == [frame |-> "none"]

Init ==
    /\ server_configs = <<>>
    /\ pc = "idle"
    /\ max_iterations = 0
    /\ mcp_tools = <<>>
    /\ current_messages = <<>>
    /\ iteration = 0
    /\ llm_response = Unbound
    /\ tool_calls = <<>>
    /\ next_call = 1
    /\ inflight = {}
    /\ tool_results = <<>>
    /\ tool_responses = <<>>
    /\ gathered = <<>>
    /\ outcome = NoOutcome
    /\ events = <<>>
    /\ parse_input = <<>>
    /\ chunks = <<>>
    /\ tool_cache = <<>>
    /\ cache_ttl = <<>>
    /\ now = 0
    /\ pending = {}
    /\ locals = NoLocals

(* register_server_config *)
RegisterServerConfig(server) ==
    /\ UNCHANGED locals
    /\ pc = "idle"
    /\ server.id \notin DOMAIN server_configs
    /\ server_configs' = [id \in DOMAIN server_configs \cup {server.id} |->
                             IF id = server.id THEN server ELSE server_configs[id]]
    /\ UNCHANGED <<parse_input, chunks, tool_cache, cache_ttl, now, pending>>
    /\ UNCHANGED <<pc, max_iterations, mcp_tools, current_messages, iteration,
                   llm_response, tool_calls, next_call, inflight, tool_results,
                   tool_responses, gathered, outcome, events>>

(* complete_mcp_workflow up to its loop: lines 784-812 *)
StartWorkflow(messages, enabled, reachable, n) ==
    /\ locals' = [frame |-> "workflow", collected |-> 1]
    /\ pc = "idle"
    /\ pc' = "loop"
    /\ max_iterations' = n
    /\ mcp_tools' = collect_mcp_tools(enabled, reachable)
    /\ current_messages' = messages
    /\ iteration' = 0
    /\ llm_response' = Unbound
    /\ UNCHANGED <<parse_input, chunks, tool_cache, cache_ttl, now, pending>>
    /\ UNCHANGED <<server_configs, tool_calls, next_call, inflight, tool_results,
                   tool_responses, gathered, outcome, events>>

(* lines 814-822: the completion call of one round is issued *)
IssueCompletion ==
    /\ UNCHANGED locals
    /\ pc = "loop"
    /\ InRange(iteration, max_iterations)
    /\ pc' = "completion"
    /\ events' = Append(events, [e |-> "llm_call", round |-> iteration])
    /\ UNCHANGED <<parse_input, chunks, tool_cache, cache_ttl, now, pending>>
    /\ UNCHANGED <<server_configs, max_iterations, mcp_tools, current_messages,
                   iteration, llm_response, tool_calls, next_call, inflight,
                   tool_results, tool_responses, gathered, outcome>>

(* lines 820-849: the completion returns, its text is parsed *)
CompletionReturns(o) ==
    /\ UNCHANGED locals
    /\ pc = "completion"
    /\ LET response == completions(o, mcp_tools)
           parsed == parse_tool_use(response.message.content, mcp_tools)
       IN  /\ llm_response' = response
           /\ events' = Append(events, [e |-> "llm_ret", round |-> iteration,
                                        failed |-> o.raised, text |-> o.text])
           /\ IF parsed.raised
              THEN /\ pc' = "raised"
                   /\ outcome' = [kind |-> "raised", error |-> "ValidationError"]
                   /\ UNCHANGED <<tool_calls, next_call, tool_results>>
              ELSE IF NoToolCalls(parsed.tools)
              THEN /\ pc' = "returned"
                   /\ outcome' = [kind |-> "returned", response |-> response,
                                  line |-> 840]
                   /\ UNCHANGED <<tool_calls, next_call, tool_results>>
              ELSE /\ pc' = "execute"
                   /\ tool_calls' = parsed.tools
                   /\ next_call' = 1
                   /\ tool_results' = <<>>
                   /\ UNCHANGED outcome
    /\ UNCHANGED <<parse_input, chunks, tool_cache, cache_ttl, now, pending>>
    /\ UNCHANGED <<server_configs, max_iterations, mcp_tools, current_messages,
                   iteration, inflight, tool_responses, gathered>>

(* execute_mcp_tool_calls, one iteration up to the await of call_tool *)
ExecuteNext ==
    /\ UNCHANGED locals
    /\ pc = "execute"
    /\ next_call <= Len(tool_calls)
    /\ MayStartNext(inflight)
    /\ LET call == tool_calls[next_call].tool
           r == ResolveCall(call.name, call.arguments, mcp_tools, server_configs)
       IN  IF r.send
           THEN /\ inflight' = inflight \cup {next_call}
                /\ events' = Append(events,
                                 [e |-> "tool_call", round |-> iteration,
                                  index |-> next_call, server |-> r.server.id,
                                  name |-> r.name, arguments |-> r.arguments])
                /\ UNCHANGED tool_results
           ELSE /\ tool_results' = Append(tool_results, Tagged(r.response, next_call))
                /\ UNCHANGED <<inflight, events>>
    /\ next_call' = next_call + 1
    /\ UNCHANGED <<parse_input, chunks, tool_cache, cache_ttl, now, pending>>
    /\ UNCHANGED <<server_configs, pc, max_iterations, mcp_tools, current_messages,
                   iteration, llm_response, tool_calls, tool_responses, gathered, outcome>>

(* call_tool of intent i returns or raises; callMCPTool normalises *)
ToolReturns(i, raw) ==
    /\ UNCHANGED locals
    /\ pc = "execute"
    /\ i \in inflight
    /\ inflight' = inflight \ {i}
    /\ tool_results' = Append(tool_results,
                              Tagged(FinishCall(tool_calls[i].tool.name, raw), i))
    /\ events' = Append(events, [e |-> "tool_ret", round |-> iteration,
                                 index |-> i, failed |-> raw.raised])
    /\ UNCHANGED <<parse_input, chunks, tool_cache, cache_ttl, now, pending>>
    /\ UNCHANGED <<server_configs, pc, max_iterations, mcp_tools, current_messages,
                   iteration, llm_response, tool_calls, next_call, tool_responses, gathered,
                   outcome>>

(* lines 851-893: the round's messages are appended, the loop goes on *)
FoldResults ==
    /\ UNCHANGED locals
    /\ pc = "execute"
    /\ BatchComplete(next_call, tool_calls, inflight)
    /\ current_messages' = current_messages \o <<llm_response.message>>
                               \o ToolMessages(tool_calls, tool_results)
    /\ iteration' = iteration + 1
    /\ pc' = "loop"
    /\ UNCHANGED <<parse_input, chunks, tool_cache, cache_ttl, now, pending>>
    /\ UNCHANGED <<server_configs, max_iterations, mcp_tools, llm_response,
                   tool_calls, next_call, inflight, tool_results, tool_responses, gathered,
                   outcome, events>>

(* lines 895-900: the loop is exhausted; with max_iterations = 0 the name  *)
(* llm_response was never bound and the return raises UnboundLocalError.    *)
LoopExit ==
    /\ UNCHANGED locals
    /\ pc = "loop"
    /\ ~InRange(iteration, max_iterations)
    /\ IF llm_response = Unbound
       THEN /\ pc' = "raised"
            /\ outcome' = [kind |-> "raised", error |-> "UnboundLocalError"]
       ELSE /\ pc' = "returned"
            /\ outcome' = [kind |-> "returned", response |-> llm_response,
                           line |-> 900]
    /\ UNCHANGED <<parse_input, chunks, tool_cache, cache_ttl, now, pending>>
    /\ UNCHANGED <<server_configs, max_iterations, mcp_tools, current_messages,
                   iteration, llm_response, tool_calls, next_call, inflight,
                   tool_results, tool_responses, gathered, events>>

-----------------------------------------------------------------------------
(* parse_and_call_tools: the asyncio.gather batch (on_chunk = None) *)

RECURSIVE SeqsUpTo(_, _)
SeqsUpTo(S, n) ==
    IF n = 0
    THEN {<<>>}
    ELSE LET shorter == SeqsUpTo(S, n - 1)
         IN  shorter \cup {Append(q, x) : q \in shorter, x \in S}

BatchBlocks == {Block(NameSearch, PObject(ArgsNoisy)),
                Block(NameGhost, PObject(NoArgs)),
                Block(NameCalc, PInvalid)}

BatchTexts == SeqsUpTo(BatchBlocks, MaxBatch) \cup {TextArray}

BatchCatalogs == {<<>>, collect_mcp_tools(<<S1>>, {"s1"}),
                  collect_mcp_tools(<<S2, S1>>, {"s1", "s2"})}

McpToolError(text) == [content |-> <<TextItem(text)>>, isError |-> TRUE]

(* call_mcp_tool up to the await of mcp_service.call_tool: lines 209-247; *)
(* the arguments are forwarded as parsed.                                   *)
ResolveCallMcpTool(tool_call, tools, configs) ==
    LET target == FindTool(tool_call.name, tools)
    IN  IF target = <<>>
        THEN [send |-> FALSE,
              response |-> McpToolError(<<"tool not found", tool_call.name>>)]
        ELSE LET server == GetServerConfig(configs, target[1].server_id)
             IN  IF server = <<>>
                 THEN [send |-> FALSE,
                       response |-> McpToolError(<<"server config not found",
                                                   target[1].server_id>>)]
                 ELSE [send |-> TRUE,
                       server |-> server[1],
                       name |-> tool_call.name,
                       arguments |-> tool_call.arguments]

(* call_mcp_tool after the await: lines 249-281 *)
FinishCallMcpTool(raw) ==
    IF raw.raised
    THEN McpToolError(<<"tool call failed", raw.message>>)
    ELSE [content |-> [i \in 1..Len(raw.content) |-> NormalizeItem(raw.content[i])],
          isError |-> FALSE]

(* the scan finds nothing *)
FindExistingNever(responses, id) == {}

(* lines 298-299: the positions of the records that carry the id *)
FindExisting(responses, id) == {i \in 1..Len(responses) : responses[i].id = id}

(* a record with a known id is taken out and put at the end *)
UpsertMovesToEnd(responses, response) ==
    Append(SelectSeq(responses, LAMBDA r : r.id # response.id), response)

(* upsert_mcp_tool_response: the mutation of the list *)
Upsert(responses, response) ==
    LET hits == FindExisting(responses, response.id)
    IN  IF hits # {}
        THEN [responses EXCEPT ![CHOOSE i \in hits : \A h \in hits : i <= h] = response]
        ELSE Append(responses, response)

RECURSIVE UpsertAll(_, _)
UpsertAll(responses, new) ==
    IF new = <<>>
    THEN responses
    ELSE UpsertAll(Upsert(responses, Head(new)), Tail(new))

ResponseId(parse_result, idx, i) == <<parse_result.id, idx, i - 1>>

(* lines 391-397 *)
Invoking(tools, idx) ==
    [i \in 1..Len(tools) |->
        [id |-> ResponseId(tools[i], idx, i), tool |-> tools[i].tool,
         status |-> "invoking", content |-> <<>>, error |-> "None"]]

(* the status taken to be done whatever the flag of the result *)
CompletedAlwaysDone(parse_result, idx, i, response) ==
    [id |-> ResponseId(parse_result, idx, i), tool |-> parse_result.tool,
     status |-> "done",
     content |-> response.content,
     error |-> "None"]

(* lines 410-416 *)
Completed(parse_result, idx, i, response) ==
    [id |-> ResponseId(parse_result, idx, i), tool |-> parse_result.tool,
     status |-> IF ~response.isError THEN "done" ELSE "error",
     content |-> response.content,
     error |-> IF ~response.isError THEN "None" ELSE "tool call failed"]

RECURSIVE TextContent(_)
TextContent(content) ==
    IF content = <<>>
    THEN <<>>
    ELSE (CASE Head(content).type = "text" -> <<Head(content).text>>
            [] Head(content).type = "image" -> <<<<"image", Head(content).mimeType>>>>
            [] OTHER -> <<>>) \o TextContent(Tail(content))

(* default_convert_to_message *)
ConvertToMessage(tool_call_id, response) ==
    [role |-> "tool", content |-> TextContent(response.content),
     tool_call_id |-> tool_call_id,
     metadata |-> [tool_response |-> response, is_error |-> response.isError]]

(* asyncio.gather returns the results by position, not by completion. *)
Gathered(done, n) == [i \in 1..n |-> done[i]]

(* results stored in completion order, as asyncio.as_completed would *)
PutInCompletionOrder(f, i, v) ==
    [k \in DOMAIN f \cup {Cardinality(DOMAIN f) + 1} |->
        IF k = Cardinality(DOMAIN f) + 1 THEN v ELSE f[k]]

Put(f, i, v) == [k \in DOMAIN f \cup {i} |-> IF k = i THEN v ELSE f[k]]

(* parse_and_call_tools up to the gather: lines 380-453 *)
StartBatch(content, tools, idx) ==
    /\ UNCHANGED locals
    /\ pc = "idle"
    /\ mcp_tools' = tools
    /\ LET parsed == parse_tool_use(content, tools)
       IN  IF parsed.raised
           THEN /\ pc' = "raised"
                /\ outcome' = [kind |-> "batch_raised", error |-> "ValidationError"]
                /\ UNCHANGED <<tool_calls, tool_responses, iteration>>
           ELSE IF parsed.tools = <<>>
           THEN /\ pc' = "returned"
                /\ outcome' = [kind |-> "batch", results |-> <<>>]
                /\ UNCHANGED <<tool_calls, tool_responses, iteration>>
           ELSE /\ pc' = "gather"
                /\ tool_calls' = parsed.tools
                /\ tool_responses' = UpsertAll(tool_responses,
                                               Invoking(parsed.tools, idx))
                /\ iteration' = idx
                /\ UNCHANGED outcome
    /\ next_call' = 1
    /\ gathered' = <<>>
    /\ UNCHANGED <<parse_input, chunks, tool_cache, cache_ttl, now, pending>>
    /\ UNCHANGED <<server_configs, max_iterations, current_messages, llm_response,
                   inflight, tool_results, events>>

(* execute_single_tool(i) runs up to the await of call_tool; the tasks of  *)
(* the gather are started in list order and none waits for another.         *)
TaskStarts ==
    /\ UNCHANGED locals
    /\ pc = "gather"
    /\ next_call <= Len(tool_calls)
    /\ LET r == ResolveCallMcpTool(tool_calls[next_call].tool, mcp_tools,
                                   server_configs)
       IN  IF r.send
           THEN /\ inflight' = inflight \cup {next_call}
                /\ events' = Append(events,
                                 [e |-> "tool_call", round |-> iteration,
                                  index |-> next_call, server |-> r.server.id,
                                  name |-> r.name, arguments |-> r.arguments])
                /\ UNCHANGED <<tool_responses, gathered>>
           ELSE /\ tool_responses' =
                       Upsert(tool_responses,
                              Completed(tool_calls[next_call], iteration,
                                        next_call, r.response))
                /\ gathered' = Put(gathered, next_call,
                                   ConvertToMessage(tool_calls[next_call].tool.id,
                                                    r.response))
                /\ UNCHANGED <<inflight, events>>
    /\ next_call' = next_call + 1
    /\ UNCHANGED <<parse_input, chunks, tool_cache, cache_ttl, now, pending>>
    /\ UNCHANGED <<server_configs, pc, max_iterations, mcp_tools, current_messages,
                   iteration, llm_response, tool_calls, tool_results, outcome>>

(* call_tool of task i returns or raises: lines 407-437 *)
TaskReturns(i, raw) ==
    /\ UNCHANGED locals
    /\ pc = "gather"
    /\ i \in inflight
    /\ inflight' = inflight \ {i}
    /\ LET response == FinishCallMcpTool(raw)
       IN  /\ tool_responses' = Upsert(tool_responses,
                                       Completed(tool_calls[i], iteration, i, response))
           /\ gathered' = Put(gathered, i,
                              ConvertToMessage(tool_calls[i].tool.id, response))
    /\ events' = Append(events, [e |-> "tool_ret", round |-> iteration,
                                 index |-> i, failed |-> raw.raised])
    /\ UNCHANGED <<parse_input, chunks, tool_cache, cache_ttl, now, pending>>
    /\ UNCHANGED <<server_configs, pc, max_iterations, mcp_tools, current_messages,
                   iteration, llm_response, tool_calls, next_call, tool_results,
                   outcome>>

(* the gather is complete: lines 453-454 *)
BatchReturns ==
    /\ UNCHANGED locals
    /\ pc = "gather"
    /\ DOMAIN gathered = 1..Len(tool_calls)
    /\ pc' = "returned"
    /\ outcome' = [kind |-> "batch", results |-> Gathered(gathered, Len(tool_calls))]
    /\ UNCHANGED <<parse_input, chunks, tool_cache, cache_ttl, now, pending>>
    /\ UNCHANGED <<server_configs, max_iterations, mcp_tools, current_messages,
                   iteration, llm_response, tool_calls, next_call, inflight,
                   tool_results, tool_responses, gathered, events>>

Next ==
    \/ \E server \in Servers : RegisterServerConfig(server)
    \/ \E messages \in InitialTranscripts, enabled \in EnabledLists,
          reachable \in SUBSET {"s1", "s2"}, n \in 0..MaxIterationsBound :
          StartWorkflow(messages, enabled, reachable, n)
    \/ IssueCompletion
    \/ \E o \in CompletionOutcomes : CompletionReturns(o)
    \/ ExecuteNext
    \/ \E i \in 1..MaxBatch, raw \in ToolOutcomes : ToolReturns(i, raw)
    \/ FoldResults
    \/ LoopExit
    \/ \E content \in BatchTexts, tools \in BatchCatalogs : StartBatch(content, tools, 0)
    \/ TaskStarts
    \/ \E i \in 1..MaxBatch, raw \in ToolOutcomes : TaskReturns(i, raw)
    \/ BatchReturns

Spec == Init /\ [][Next]_vars

-----------------------------------------------------------------------------
(* Reading the log *)

EventsOf(kind) == SelectSeq(events, LAMBDA ev : ev.e = kind)

Positions(kind) == {p \in 1..Len(events) : events[p].e = kind}

InWorkflow == pc \in {"loop", "completion", "execute"}

WorkflowEnded == outcome.kind \in {"returned", "raised"}

(* the next intent of the round could be sent to its server *)
NextResolves ==
    /\ next_call <= Len(tool_calls)
    /\ ResolveCall(tool_calls[next_call].tool.name,
                   tool_calls[next_call].tool.arguments,
                   mcp_tools, server_configs).send

-----------------------------------------------------------------------------
(* C1: one run of complete_mcp_workflow issues at most max_iterations      *)
(* completion calls, for every max_iterations >= 0 and whatever the model  *)
(* and the tool servers answer.                                             *)
C1_AtMostMaxIterationsCalls == Len(EventsOf("llm_call")) <= max_iterations

C1_Witness ==
    /\ outcome.kind = "returned"
    /\ outcome.line = 900
    /\ max_iterations >= 2
    /\ Len(EventsOf("llm_call")) = max_iterations

C2_ZeroIntentsStep ==
    /\ pc = "completion"
    /\ llm_response' # llm_response
    /\ ~parse_tool_use(llm_response'.message.content, mcp_tools).raised
    /\ parse_tool_use(llm_response'.message.content, mcp_tools).tools = <<>>

(* C2: a round whose completion text yields zero parsed intents ends the   *)
(* run: that completion is returned, no tool is dispatched in the round,    *)
(* nothing is appended to the transcript, and nothing happens afterwards,   *)
(* also when the round counter is still below max_iterations.               *)
C2_NoIntentsReturnsAtOnce ==
    [][/\ C2_ZeroIntentsStep =>
            /\ pc' = "returned"
            /\ outcome' = [kind |-> "returned", response |-> llm_response',
                           line |-> 840]
            /\ current_messages' = current_messages
            /\ Len(events') = Len(events) + 1
            /\ events'[Len(events')].e = "llm_ret"
            /\ inflight' = {}
       /\ pc = "returned" => UNCHANGED vars]_vars

C2_Witness ==
    /\ outcome.kind = "returned"
    /\ outcome.line = 840
    /\ iteration + 1 < max_iterations
    /\ current_messages \in InitialTranscripts

(* C3: when the completion collaborator fails in a round, the run ends in *)
(* that round: the failure is the last thing that happens, and the run      *)
(* returns an assistant message carrying the error text with an error       *)
(* marker in its metadata; no tool is dispatched and no further completion  *)
(* call is issued, whatever the error text contains.                        *)
C3_FailureEndsTheRun ==
    \A p \in Positions("llm_ret") :
        events[p].failed =>
            /\ p = Len(events)
            /\ outcome.kind = "returned"
            /\ outcome.response.message.role = "assistant"
            /\ outcome.response.message.content = <<Prose>> \o events[p].text
            /\ "error" \in DOMAIN outcome.response.message.metadata

Catalogs == {collect_mcp_tools(enabled, reachable) :
                enabled \in EnabledLists, reachable \in SUBSET {"s1", "s2"}}

DoneMetadata ==
    {completions(o, tools).message.metadata :
        o \in {c \in CompletionOutcomes :
                  \E t \in Catalogs :
                      LET parsed == parse_tool_use(completions(c, t).message.content, t)
                      IN  ~parsed.raised /\ parsed.tools = <<>>},
        tools \in Catalogs}

(* C4: when every one of the max_iterations rounds produced tool calls the *)
(* run returns the completion of the last round, and the metadata of that   *)
(* response differs from the metadata of every response that a round        *)
(* without a tool-call block returns.                                       *)
C4_ExhaustionIsDistinguishable ==
    /\ outcome.kind = "returned" /\ outcome.line = 840 =>
           outcome.response.message.metadata \in DoneMetadata
    /\ outcome.kind = "returned" /\ outcome.line = 900 =>
           /\ iteration = max_iterations
           /\ outcome.response = llm_response
           /\ Len(current_messages) > Len(tool_calls)
           /\ current_messages[Len(current_messages) - Len(tool_calls)]
                  = outcome.response.message
           /\ outcome.response.message.metadata \notin DoneMetadata

C4_Witness ==
    /\ outcome.kind = "returned"
    /\ outcome.line = 900
    /\ max_iterations = 2
    /\ "tool_calls_detected" \in DOMAIN outcome.response.message.metadata

(* The scenario of one tool "search", max_iterations >= 2, a first     *)
(* completion with one well-formed block for search with {query: x} and a   *)
(* second completion without a block.                                       *)
OneSearchBlock(text) ==
    /\ Len(FindAll(text)) = 1
    /\ ~parse_tool_use(text, <<>>).raised
    /\ Len(parse_tool_use(text, <<>>).tools) = 1
    /\ parse_tool_use(text, <<>>).tools[1].tool.name = NameSearch
    /\ parse_tool_use(text, <<>>).tools[1].tool.arguments = ArgsQueryX

C5_Scenario ==
    /\ WorkflowEnded
    /\ Len(mcp_tools) = 1
    /\ mcp_tools[1].name = NameSearch
    /\ max_iterations >= 2
    /\ LET rets == EventsOf("llm_ret")
       IN  /\ Len(rets) >= 1
           /\ ~rets[1].failed
           /\ OneSearchBlock(rets[1].text)
           /\ Len(rets) >= 2 => ~rets[2].failed /\ FindAll(rets[2].text) = <<>>

C5_Conclusion ==
    /\ Len(EventsOf("llm_call")) = 2
    /\ Len(EventsOf("llm_ret")) = 2
    /\ Len(EventsOf("tool_call")) = 1
    /\ EventsOf("tool_call")[1].name = NameSearch
    /\ EventsOf("tool_call")[1].arguments = ArgsQueryX
    /\ \A p \in Positions("tool_call") :
           /\ \E q \in Positions("llm_ret") : q < p /\ events[q].round = 0
           /\ \E q \in Positions("llm_call") : p < q /\ events[q].round = 1
    /\ outcome.kind = "returned"
    /\ outcome.response.message.content = EventsOf("llm_ret")[2].text
    /\ outcome.response.message.role = "assistant"

(* C5 as stated: in the scenario the run makes exactly 2 completion calls  *)
(* and exactly 1 invocation of search with {query: x}, between the two      *)
(* completion calls, and returns the second completion.                     *)
C5_ScenarioAsStated == C5_Scenario => C5_Conclusion

(* C5 as amended: the same, provided the server that owns the catalog's    *)
(* search tool is registered in the server registry.                        *)
C5_ScenarioWithRegisteredServer ==
    C5_Scenario /\ mcp_tools[1].server_id \in DOMAIN server_configs
        => C5_Conclusion

C5_Witness ==
    /\ C5_Scenario
    /\ mcp_tools[1].server_id \in DOMAIN server_configs
    /\ outcome.kind = "returned"
    /\ Len(EventsOf("tool_ret")) = 1

ReturnedBefore(p, kind, ret) ==
    \A q \in 1..(p - 1) :
        events[q].e = kind =>
            \E r \in (q + 1)..(p - 1) :
                /\ events[r].e = ret
                /\ events[r].round = events[q].round
                /\ kind = "tool_call" => events[r].index = events[q].index

(* C6: rounds never overlap and each round joins its tool calls: when the *)
(* completion call of a round is issued, every earlier completion call has  *)
(* returned and every tool invocation dispatched before it has returned.    *)
C6_RoundsAreSequentialAndJoined ==
    /\ \A p \in Positions("llm_call") :
           /\ ReturnedBefore(p, "llm_call", "llm_ret")
           /\ ReturnedBefore(p, "tool_call", "tool_ret")
           /\ \A q \in 1..(p - 1) : events[q].round < events[p].round
    /\ pc = "completion" => inflight = {}

C6_Witness ==
    /\ pc = "completion"
    /\ iteration = 1
    /\ Len(EventsOf("tool_ret")) = 2

(* C7: within a round the intents are fanned out concurrently: while the   *)
(* invocation of an earlier intent has not returned, the invocation of the  *)
(* next intent of the round can start.                                      *)
C7_FanOutIsConcurrent ==
    pc = "execute" /\ inflight # {} /\ NextResolves => ENABLED ExecuteNext

Invoked(i) == \E p \in Positions("tool_call") :
                  events[p].round = iteration /\ events[p].index = i

Failed(i) == \E p \in Positions("tool_ret") :
                 /\ events[p].round = iteration
                 /\ events[p].index = i
                 /\ events[p].failed

C8_ExecuteManyAligned ==
    pc = "execute" /\ BatchComplete(next_call, tool_calls, inflight) =>
        /\ Len(tool_results) = Len(tool_calls)
        /\ \A i \in 1..Len(tool_calls) :
               /\ tool_results[i].call = i
               /\ tool_results[i].isError <=> (~Invoked(i) \/ Failed(i))
               /\ Invoked(i) <=>
                      ResolveCall(tool_calls[i].tool.name,
                                  tool_calls[i].tool.arguments,
                                  mcp_tools, server_configs).send

C8_GatherAligned ==
    outcome.kind = "batch" =>
        /\ Len(outcome.results) = Len(tool_calls)
        /\ \A i \in 1..Len(tool_calls) :
               /\ outcome.results[i].tool_call_id = tool_calls[i].tool.id
               /\ outcome.results[i].metadata.is_error <=> (~Invoked(i) \/ Failed(i))
               /\ Invoked(i) <=>
                      ResolveCallMcpTool(tool_calls[i].tool, mcp_tools,
                                         server_configs).send

(* C8: a batch of n intents gives n results, result i belonging to intent  *)
(* i, whatever subset fails and in whatever order the invocations complete; *)
(* a failing intent gives an error-flagged result, and every intent that    *)
(* resolves to a registered server is invoked.                              *)
C8_BatchIsIsolatedAndAligned ==
    C8_ExecuteManyAligned /\ C8_GatherAligned

C8_Witness ==
    /\ outcome.kind = "batch"
    /\ Len(outcome.results) = 3
    /\ ~outcome.results[1].metadata.is_error
    /\ outcome.results[2].metadata.is_error
    /\ ~outcome.results[3].metadata.is_error
    /\ \E p, q \in Positions("tool_ret") :
           p < q /\ events[p].index = 3 /\ events[q].index = 1

LastMessages(n) ==
    SubSeq(current_messages, Len(current_messages) - n + 1, Len(current_messages))

EndedWithError ==
    \/ outcome.kind = "raised"
    \/ /\ outcome.kind = "returned"
       /\ "error" \in DOMAIN outcome.response.message.metadata

(* C9: tool errors never unwind the round loop: after a round in which    *)
(* every tool call failed, one observation with status failed per intent    *)
(* has been appended and, if another round is left, its completion call is  *)
(* issued; only a completion failure ends a run with an error.              *)
C9_OnlyCompletionFailureEndsWithError ==
    /\ (/\ pc = "loop"
        /\ iteration >= 1
        /\ \A i \in 1..Len(tool_results) : tool_results[i].isError)
       => /\ Len(tool_results) = Len(tool_calls)
          /\ \A i \in 1..Len(tool_calls) :
                 /\ LastMessages(Len(tool_calls))[i].content.status = "failed"
                 /\ LastMessages(Len(tool_calls))[i].content.tool_name
                        = tool_calls[i].tool.name
          /\ iteration < max_iterations => ENABLED IssueCompletion
    /\ EndedWithError =>
          /\ llm_response # Unbound
          /\ llm_response.metrics.status = "ai_completion_error"

C10_RoundAppended(n) ==
    /\ n >= 1
    /\ n = Len(tool_calls)
    /\ Len(current_messages') = Len(current_messages) + n + 1
    /\ SubSeq(current_messages', 1, Len(current_messages)) = current_messages
    /\ current_messages'[Len(current_messages) + 1] = llm_response.message
    /\ current_messages'[Len(current_messages) + 1].role = "assistant"
    /\ \A i \in 1..n :
           LET m == current_messages'[Len(current_messages) + 1 + i]
           IN  /\ m.role = "user"
               /\ m.content.tool_name = tool_calls[i].tool.name
               /\ tool_results[i].call = i
               /\ m.content.status = "failed" <=> tool_results[i].isError
               /\ m.content.status = "success" <=> ~tool_results[i].isError
               /\ m.metadata.is_error = tool_results[i].isError

(* C10: the transcript is append-only: a round with n >= 1 parsed intents  *)
(* extends it by the assistant completion followed by n observations in     *)
(* intent order, each with role user and with status failed exactly when    *)
(* its result is error-flagged; nothing else ever changes the transcript.   *)
C10_TranscriptIsAppendOnly ==
    [][InWorkflow =>
          \/ current_messages' = current_messages
          \/ C10_RoundAppended(Len(current_messages') - Len(current_messages) - 1)]_vars

C10_Witness ==
    /\ InWorkflow
    /\ iteration = 2
    /\ Len(current_messages) >= 6
    /\ \E i, j \in 1..Len(current_messages) :
           /\ i < j
           /\ current_messages[i].role = "user"
           /\ current_messages[j].role = "user"
           /\ current_messages[i].metadata # <<>>
           /\ current_messages[j].metadata # <<>>
           /\ current_messages[i].metadata.is_error
           /\ ~current_messages[j].metadata.is_error

-----------------------------------------------------------------------------
(* parse_tool_use on its own: a text and a catalog are drawn, the text is  *)
(* parsed, and the returned intents are dispatched one after the other by  *)
(* callMCPTool.  No server is registered here, so a dispatch ends in the    *)
(* except branch: tool not found, or server not found for a listed tool.    *)

MaxTextLen == 3

ParseTokens == {Prose, Soup,
                Block(<<WS>> \o NameSearch, PObject(ArgsQueryX)),
                Block(NameGhost, PObject(NoArgs)),
                Block(NameCalc, PInvalid),
                Block(NameSearch, PArray),
                Block(NameCalc, PString),
                Block(NameCalc, PNumber),
                Block(NameGhost, PNull)}

ParseTexts == SeqsUpTo(ParseTokens, MaxTextLen)

ParseCatalogs == BatchCatalogs

ParseToolUse(text, tools) ==
    /\ UNCHANGED locals
    /\ pc = "idle"
    /\ outcome = NoOutcome
    /\ parse_input' = text
    /\ mcp_tools' = tools
    /\ LET r == parse_tool_use(text, tools)
       IN  outcome' = IF r.raised
                      THEN [kind |-> "parse_raised", error |-> "ValidationError"]
                      ELSE [kind |-> "parsed", results |-> r.tools]
    /\ pc' = "parsed"
    /\ UNCHANGED <<chunks, tool_cache, cache_ttl, now, pending>>
    /\ UNCHANGED <<server_configs, max_iterations, current_messages, iteration,
                   llm_response, tool_calls, next_call, inflight, tool_results,
                   tool_responses, gathered, events>>

(* callMCPTool for the next returned intent, ending before any call_tool *)
DispatchParsed ==
    /\ UNCHANGED locals
    /\ pc = "parsed"
    /\ outcome.kind = "parsed"
    /\ Len(tool_results) < Len(outcome.results)
    /\ LET i == Len(tool_results) + 1
           call == outcome.results[i].tool
           r == ResolveCall(call.name, call.arguments, mcp_tools, server_configs)
       IN  /\ ~r.send
           /\ tool_results' = Append(tool_results, Tagged(r.response, i))
    /\ UNCHANGED <<parse_input, chunks, tool_cache, cache_ttl, now, pending>>
    /\ UNCHANGED <<server_configs, pc, max_iterations, mcp_tools, current_messages,
                   iteration, llm_response, tool_calls, next_call, inflight,
                   tool_responses, gathered, outcome, events>>

NextParse ==
    \/ \E text \in ParseTexts, tools \in ParseCatalogs : ParseToolUse(text, tools)
    \/ DispatchParsed

SpecParse == Init /\ [][NextParse]_vars

(* the blocks of the parsed text whose parameters are a JSON object *)
ObjectBlocks == SelectSeq(FindAll(parse_input),
                          LAMBDA b : JsonLoads(b.params).ok
                                     /\ JsonLoads(b.params).value.type = "dict")

(* the blocks of the parsed text whose parameters are not JSON *)
InvalidBlocks == SelectSeq(FindAll(parse_input), LAMBDA b : ~JsonLoads(b.params).ok)

(* C11: the intents parse returns are in document order and carry the ids  *)
(* call_0 .. call_{K-1}, K being the number of intents returned, also when  *)
(* blocks with malformed JSON stand before or between the well-formed ones. *)
C11_IdsAreCallZeroToK ==
    (pc = "parsed" /\ outcome.kind = "parsed") =>
        /\ Len(outcome.results) = Len(ObjectBlocks)
        /\ \A i \in 1..Len(outcome.results) :
               /\ outcome.results[i].tool.name = Strip(ObjectBlocks[i].name)
               /\ outcome.results[i].tool.id = <<"call", i - 1>>

(* the intents parse returned are the object blocks of the text, in order *)
ReturnsTheObjectBlocks ==
    /\ outcome.kind = "parsed"
    /\ Len(outcome.results) = Len(ObjectBlocks)
    /\ \A i \in 1..Len(ObjectBlocks) :
           /\ outcome.results[i].tool.name = Strip(ObjectBlocks[i].name)
           /\ outcome.results[i].tool.arguments
                  = JsonLoads(ObjectBlocks[i].params).value.map

(* C12: a block whose parameters are not valid JSON is dropped without any *)
(* error being raised and every well-formed sibling is still returned; a    *)
(* text with no well-formed block, the empty text included, yields the      *)
(* empty sequence.                                                           *)
C12_InvalidJsonBlockIsDropped ==
    (pc = "parsed" /\ (InvalidBlocks # <<>> \/ ObjectBlocks = <<>>)) =>
        ReturnsTheObjectBlocks

(* C13: parse never raises: a block whose parameters are JSON but not an   *)
(* object is dropped like a failed parse and the remaining blocks are       *)
(* still processed.                                                          *)
C13_ParseNeverRaises ==
    pc = "parsed" => ReturnsTheObjectBlocks

(* C14: the result of parse does not depend on the catalog: any two        *)
(* catalogs give the same intents for the same text; a block naming a tool  *)
(* of no catalog still yields an intent, and that intent fails only at      *)
(* dispatch, with a tool-not-found error response.                           *)
C14_ParseIgnoresTheCatalog ==
    pc = "parsed" =>
        /\ \A tools \in ParseCatalogs :
               LET r == parse_tool_use(parse_input, tools)
               IN  /\ r.raised <=> outcome.kind = "parse_raised"
                   /\ ~r.raised => r.tools = outcome.results
        /\ outcome.kind = "parsed" =>
               /\ Len(outcome.results) = Len(ObjectBlocks)
               /\ \A i \in 1..Len(tool_results) :
                      LET name == outcome.results[i].tool.name
                      IN  (\A k \in 1..Len(mcp_tools) : mcp_tools[k].name # name)
                          => /\ tool_results[i].isError
                             /\ tool_results[i].content
                                    = <<TextItem(<<"Error calling tool", name,
                                                   "Tool not found">>)>>

C14_Witness ==
    /\ pc = "parsed"
    /\ outcome.kind = "parsed"
    /\ Len(mcp_tools) >= 2
    /\ Len(tool_results) = 2
    /\ outcome.results[1].tool.name = NameGhost
    /\ outcome.results[2].tool.name = NameSearch
    /\ tool_results[1].content
           = <<TextItem(<<"Error calling tool", NameGhost, "Tool not found">>)>>
    /\ tool_results[2].content
           = <<TextItem(<<"Error calling tool", NameSearch, "Server not found">>)>>

-----------------------------------------------------------------------------
(* upsert_mcp_tool_response on its own: records with arbitrary ids are     *)
(* upserted into a registry that starts empty, with and without a sink.     *)
(* events logs the calls made.                                               *)

MaxUpserts == 4

UpsertIds == {"r1", "r2", "r3"}

(* MCPToolResponse values *)
UpsertRecords ==
    [id : UpsertIds,
     tool : {[id |-> <<"call", 0>>, name |-> NameSearch, arguments |-> NoArgs]},
     status : {"invoking", "done"}]

(* BaseModel.model_dump: the record as a dict, the nested tool as a dict *)
ModelDump(response) ==
    [type |-> "dict",
     id |-> response.id,
     tool |-> [type |-> "dict", id |-> response.tool.id,
               name |-> response.tool.name,
               arguments |-> response.tool.arguments],
     status |-> response.status]

(* `if on_chunk: on_chunk({...})`: what the sink is handed, and the list   *)
(* as it is when the sink is called (seen, a ghost field)                    *)
OnChunk(sink, label, response, seen) ==
    IF sink
    THEN <<[text |-> <<label, response.tool.name, <<":">>, response.status>>,
            tool_response |-> ModelDump(response),
            seen |-> seen]>>
    ELSE <<>>

(* the sink is called first, the list is changed afterwards *)
upsert_emits_first(responses, response, sink) ==
    LET known == \E i \in 1..Len(responses) : responses[i].id = response.id
    IN  [responses |-> Upsert(responses, response),
         emitted |-> OnChunk(sink, IF known THEN "update" ELSE "call",
                             response, responses)]

(* upsert_mcp_tool_response; "update" is the line [工具更新], "call" the   *)
(* line [工具调用]                                                          *)
upsert_mcp_tool_response(responses, response, sink) ==
    LET known == \E i \in 1..Len(responses) : responses[i].id = response.id
        after == Upsert(responses, response)
    IN  [responses |-> after,
         emitted |-> OnChunk(sink, IF known THEN "update" ELSE "call",
                             response, after)]

UpsertCall(response, sink) ==
    /\ UNCHANGED locals
    /\ pc \in {"idle", "registry"}
    /\ outcome = NoOutcome
    /\ Len(events) < MaxUpserts
    /\ pc' = "registry"
    /\ LET r == upsert_mcp_tool_response(tool_responses, response, sink)
       IN  /\ tool_responses' = r.responses
           /\ chunks' = chunks \o r.emitted
    /\ events' = Append(events, [e |-> "upsert", response |-> response,
                                 sink |-> sink])
    /\ UNCHANGED <<parse_input, tool_cache, cache_ttl, now, pending>>
    /\ UNCHANGED <<server_configs, max_iterations, mcp_tools, current_messages,
                   iteration, llm_response, tool_calls, next_call, inflight,
                   tool_results, gathered, outcome>>

NextUpsert == \E response \in UpsertRecords, sink \in BOOLEAN : UpsertCall(response, sink)

SpecUpsert == Init /\ [][NextUpsert]_vars

(* the record handed to the upsert call that has just been made *)
Upserted == events'[Len(events')].response

PositionsOf(responses, id) == {i \in 1..Len(responses) : responses[i].id = id}

C15_Appended ==
    /\ Len(tool_responses') = Len(tool_responses) + 1
    /\ \A i \in 1..Len(tool_responses) : tool_responses'[i] = tool_responses[i]
    /\ tool_responses'[Len(tool_responses')] = Upserted

C15_Replaced ==
    /\ Len(tool_responses') = Len(tool_responses)
    /\ \A i \in 1..Len(tool_responses) :
           tool_responses'[i] = IF tool_responses[i].id = Upserted.id
                                THEN Upserted
                                ELSE tool_responses[i]

(* C15: upsert of a record whose id is not in the sequence appends it at   *)
(* the end, all existing records staying where they are; upsert of a        *)
(* record whose id is in the sequence replaces that record at its           *)
(* position, the length, the other records and the order being unchanged.   *)
C15_AppendsOrReplacesInPlace ==
    [][pc' = "registry" =>
          IF PositionsOf(tool_responses, Upserted.id) = {}
          THEN C15_Appended
          ELSE C15_Replaced]_vars

C15_Witness ==
    /\ pc = "registry"
    /\ Len(events) = 4
    /\ Len(tool_responses) = 3
    /\ events[4].response.id = tool_responses[2].id
    /\ events[4].response.status = "done"
    /\ tool_responses[1].status = "invoking"
    /\ tool_responses[2].status = "done"
    /\ tool_responses[3].status = "invoking"

(* C16: from an empty registry, after any sequence of upserts no two      *)
(* records of the sequence have the same id, and the length of the          *)
(* sequence is the number of distinct ids upserted so far.                   *)
C16_IdsStayUnique ==
    pc = "registry" =>
        /\ \A i, j \in 1..Len(tool_responses) :
               tool_responses[i].id = tool_responses[j].id => i = j
        /\ Len(tool_responses)
               = Cardinality({events[k].response.id : k \in 1..Len(events)})

C16_Witness ==
    /\ pc = "registry"
    /\ Len(events) = 4
    /\ Len(tool_responses) = 2
    /\ events[1].response.id = events[3].response.id
    /\ events[2].response.id = events[4].response.id

(* what the sink received during the upsert call that has just been made *)
Emitted == SubSeq(chunks', Len(chunks) + 1, Len(chunks'))

(* C17: with a sink, every upsert, append or replace, hands the sink       *)
(* exactly one event, synchronously and after the sequence has been         *)
(* mutated, whose serialized record is the record then stored under that    *)
(* id; without a sink nothing is emitted and the mutation is the same.      *)
C17_OneEventAfterTheMutation ==
    [][pc' = "registry" =>
          LET call == events'[Len(events')]
          IN  /\ SubSeq(chunks', 1, Len(chunks)) = chunks
              /\ tool_responses'
                     = upsert_mcp_tool_response(tool_responses, call.response,
                                                ~call.sink).responses
              /\ ~call.sink => Emitted = <<>>
              /\ call.sink =>
                     /\ Len(Emitted) = 1
                     /\ Emitted[1].seen = tool_responses'
                     /\ \E p \in 1..Len(tool_responses') :
                            /\ tool_responses'[p].id = call.response.id
                            /\ Emitted[1].tool_response
                                   = ModelDump(tool_responses'[p])]_vars

C17_Witness ==
    /\ pc = "registry"
    /\ Len(events) = 3
    /\ Len(chunks) = 2
    /\ ~events[2].sink
    /\ chunks[1].text[1] = "call"
    /\ chunks[2].text[1] = "update"
    /\ chunks[2].tool_response.status = "done"
    /\ Len(tool_responses) = 2

-----------------------------------------------------------------------------
(* MCPService.list_tools on one service instance: calls for several        *)
(* servers, two of which have the same command and args, overlap at the     *)
(* await of _list_tools_impl while time passes.  events logs every          *)
(* discovery started and every list returned.                                *)

MaxListCalls == 2
MaxTicks == 3

(* a server launched like S2 under another id, with another disabled set *)
S3 == [id |-> "s3", name |-> "three", command |-> <<"b">>, args |-> <<<<"x">>>>,
       disabled_tools |-> {NameCalc}]

CacheServers == {S1, S2, S3}

(* self._cache_duration = 5 * 60 *)
CacheDuration == 5 * 60

(* the seconds between two readings of time.time() in the model *)
TickStep == 150

(* the comparison made inclusive *)
IsCacheValidInclusive(key, ttl, time) ==
    IF key \notin DOMAIN ttl
    THEN FALSE
    ELSE time - ttl[key] <= CacheDuration

(* MCPService._is_cache_valid *)
IsCacheValid(key, ttl, time) ==
    IF key \notin DOMAIN ttl
    THEN FALSE
    ELSE time - ttl[key] < CacheDuration

(* an entry that exists is kept: the first write wins *)
StoreIfAbsent(map, key, value) ==
    [k \in DOMAIN map \cup {key} |-> IF k \in DOMAIN map THEN map[k] ELSE value]

(* self._tool_cache[server_key] = tools; self._cache_ttl[server_key] = ... *)
Store(map, key, value) ==
    [k \in DOMAIN map \cup {key} |-> IF k = key THEN value ELSE map[k]]

(* the list_tools calls made so far *)
ListCalls ==
    Cardinality({i \in 1..Len(events) :
                    \/ events[i].e = "discover"
                    \/ events[i].e = "list_ret" /\ events[i].hit})

Tick ==
    /\ UNCHANGED locals
    /\ pc \in {"idle", "service"}
    /\ outcome = NoOutcome
    /\ now < MaxTicks * TickStep
    /\ now' = now + TickStep
    /\ pc' = "service"
    /\ UNCHANGED <<parse_input, chunks, tool_cache, cache_ttl, pending>>
    /\ UNCHANGED <<server_configs, max_iterations, mcp_tools, current_messages,
                   iteration, llm_response, tool_calls, next_call, inflight,
                   tool_results, tool_responses, gathered, outcome, events>>

(* an empty stored list counts as a miss *)
CacheHitNonEmpty(key, cache, ttl, time) ==
    /\ IsCacheValid(key, ttl, time)
    /\ key \in DOMAIN cache
    /\ cache[key] # <<>>

(* line 115: the test that serves a call from the cache *)
CacheHit(key, cache, ttl, time) ==
    /\ IsCacheValid(key, ttl, time)
    /\ key \in DOMAIN cache

(* list_tools up to its return from the cache or to the await *)
ListToolsBegin(server) ==
    /\ UNCHANGED locals
    /\ pc \in {"idle", "service"}
    /\ outcome = NoOutcome
    /\ pc' = "service"
    /\ LET key == ServerKey(server)
       IN  IF CacheHit(key, tool_cache, cache_ttl, now)
           THEN /\ events' = Append(events,
                                    [e |-> "list_ret", server |-> server,
                                     tools |-> tool_cache[key], hit |-> TRUE,
                                     at |-> now])
                /\ UNCHANGED pending
           ELSE /\ events' = Append(events, [e |-> "discover", server |-> server,
                                             at |-> now])
                /\ pending' = pending \cup {[n |-> ListCalls + 1, server |-> server]}
    /\ UNCHANGED <<parse_input, chunks, tool_cache, cache_ttl, now>>
    /\ UNCHANGED <<server_configs, max_iterations, mcp_tools, current_messages,
                   iteration, llm_response, tool_calls, next_call, inflight,
                   tool_results, tool_responses, gathered, outcome>>

(* the timestamp is not written *)
StampNever(ttl, key, time) == ttl

(* self._cache_ttl[server_key] = time.time(): line 128, the statement next *)
(* to the store of the list, with no await between the two                  *)
Stamp(ttl, key, time) == Store(ttl, key, time)

ListToolsStart(server) ==
    /\ ListCalls < MaxListCalls
    /\ ListToolsBegin(server)

(* list_tools from the return of _list_tools_impl on: filter, store, stamp *)
ListToolsFinish(call, ok) ==
    /\ UNCHANGED locals
    /\ pc = "service"
    /\ call \in pending
    /\ pending' = pending \ {call}
    /\ LET key == ServerKey(call.server)
           found == ListToolsImpl(call.server, IF ok THEN {call.server.id} ELSE {})
           tools == FilterDisabled(found, call.server.disabled_tools)
       IN  /\ tool_cache' = Store(tool_cache, key, tools)
           /\ cache_ttl' = Stamp(cache_ttl, key, now)
           /\ events' = Append(events,
                               [e |-> "list_ret", server |-> call.server,
                                tools |-> tools, hit |-> FALSE, at |-> now])
    /\ UNCHANGED <<parse_input, chunks, now>>
    /\ UNCHANGED <<server_configs, pc, max_iterations, mcp_tools, current_messages,
                   iteration, llm_response, tool_calls, next_call, inflight,
                   tool_results, tool_responses, gathered, outcome>>

NextCache ==
    \/ Tick
    \/ \E server \in CacheServers : ListToolsStart(server)
    \/ \E n \in 1..MaxListCalls, server \in CacheServers, ok \in BOOLEAN :
          ListToolsFinish([n |-> n, server |-> server], ok)

SpecCache == Init /\ [][NextCache]_vars

(* the lists that list_tools has returned *)
Returned == {i \in 1..Len(events) : events[i].e = "list_ret"}

(* C18: whatever calls were made before, also for other servers with the   *)
(* same command and args and another disabled set, no descriptor returned   *)
(* for a server has a name of that server's disabled set.                    *)
C18_DisabledToolsAreNeverReturned ==
    \A i \in Returned :
        \A k \in 1..Len(events[i].tools) :
            events[i].tools[k].name \notin events[i].server.disabled_tools

(* the list_tools call that has just been started, for server s *)
StartsFor(s) ==
    /\ Len(events') = Len(events) + 1
    /\ events'[Len(events')].server = s
    /\ \/ events'[Len(events')].e = "discover"
       \/ events'[Len(events')].e = "list_ret" /\ events'[Len(events')].hit

(* the discoveries stored so far for servers launched like s *)
StoresLike(s) ==
    {i \in Returned : /\ ~events[i].hit
                      /\ events[i].server.command = s.command
                      /\ events[i].server.args = s.args}

LastStoreLike(s) == CHOOSE i \in StoresLike(s) : \A k \in StoresLike(s) : k <= i

(* C19: the cache key depends only on (command, args): a list_tools call   *)
(* for a server, made within the TTL of the entry stored for a server with  *)
(* another id and the same command and args, invokes no discovery and       *)
(* returns the sequence stored for that other server.                        *)
C19_KeyIsCommandAndArgs ==
    [][\A s \in CacheServers :
          (/\ StartsFor(s)
           /\ StoresLike(s) # {}
           /\ events[LastStoreLike(s)].server.id # s.id
           /\ now - events[LastStoreLike(s)].at < CacheDuration)
          => /\ events'[Len(events')].e = "list_ret"
             /\ events'[Len(events')].tools = events[LastStoreLike(s)].tools
             /\ pending' = pending
             /\ tool_cache' = tool_cache
             /\ cache_ttl' = cache_ttl]_vars

C19_Witness ==
    /\ pc = "service"
    /\ Len(events) = 3
    /\ events[1].e = "discover"
    /\ events[1].server = S2
    /\ events[2].e = "list_ret"
    /\ events[2].tools # <<>>
    /\ events[3].e = "list_ret"
    /\ events[3].server = S3
    /\ events[3].hit
    /\ events[3].at = events[2].at + TickStep
    /\ events[3].tools = events[2].tools

(* a list_tools call has just been started, for server s, while an entry  *)
(* for its key is stored                                                    *)
StartsWithEntry(s) ==
    /\ StartsFor(s)
    /\ ServerKey(s) \in DOMAIN cache_ttl

(* the call returned the stored sequence, without discovery or change *)
ServedFromCache(s) ==
    /\ events'[Len(events')].e = "list_ret"
    /\ events'[Len(events')].tools = tool_cache[ServerKey(s)]
    /\ pending' = pending
    /\ tool_cache' = tool_cache
    /\ cache_ttl' = cache_ttl

(* a list_tools call that had missed has just stored what it discovered *)
MissCompletes ==
    /\ Len(events') = Len(events) + 1
    /\ events'[Len(events')].e = "list_ret"
    /\ ~events'[Len(events')].hit
    /\ \E call \in pending :
           /\ call.server = events'[Len(events')].server
           /\ pending' = pending \ {call}
           /\ \E i \in 1..Len(events) :
                  /\ events[i].e = "discover"
                  /\ events[i].server = call.server
                  /\ \/ ServerKey(call.server) \notin DOMAIN cache_ttl
                     \/ events[i].at <= cache_ttl[ServerKey(call.server)]
                     \/ events[i].at - cache_ttl[ServerKey(call.server)] >= 300
    /\ LET key == ServerKey(events'[Len(events')].server)
       IN  /\ DOMAIN tool_cache' = DOMAIN tool_cache \cup {key}
           /\ DOMAIN cache_ttl' = DOMAIN cache_ttl \cup {key}
           /\ tool_cache'[key] = events'[Len(events')].tools
           /\ cache_ttl'[key] = now'
           /\ \A k \in DOMAIN tool_cache \ {key} : tool_cache'[k] = tool_cache[k]
           /\ \A k \in DOMAIN cache_ttl \ {key} : cache_ttl'[k] = cache_ttl[k]

(* C20: for an entry stored at time t, a list_tools call at time now       *)
(* returns the cached sequence unchanged, without discovery, exactly when   *)
(* now - t < 300 seconds; when now - t >= 300 it invokes discovery again,   *)
(* replaces the entry and stamps it with the current time; nothing other    *)
(* than such a miss ever removes or replaces an entry.                       *)
C20_EntryLivesFiveMinutes ==
    [][/\ \A s \in CacheServers :
             StartsWithEntry(s) =>
                 /\ ServedFromCache(s) <=> now - cache_ttl[ServerKey(s)] < 300
                 /\ now - cache_ttl[ServerKey(s)] >= 300 =>
                        /\ events'[Len(events')].e = "discover"
                        /\ \E call \in pending' \ pending : call.server = s
       /\ (tool_cache' # tool_cache \/ cache_ttl' # cache_ttl) => MissCompletes]_vars

C20_Witness ==
    /\ pc = "service"
    /\ Len(events) = 4
    /\ events[1].e = "discover"
    /\ events[2].e = "list_ret"
    /\ events[2].at = TickStep
    /\ events[2].tools # <<>>
    /\ events[3].e = "discover"
    /\ events[3].server = events[1].server
    /\ events[3].at = events[2].at + 300
    /\ events[4].e = "list_ret"
    /\ events[4].tools = <<>>
    /\ tool_cache[ServerKey(events[1].server)] = <<>>
    /\ cache_ttl[ServerKey(events[1].server)] = now
    /\ now = events[3].at

-----------------------------------------------------------------------------
(* Catalog assembly on one service: MCPService.get_all_tools and           *)
(* MCPToolCollector.collect_mcp_tools walk a list of servers, awaiting      *)
(* list_tools for one server after the other, while time passes.  locals    *)
(* holds the walk: the list, the position, the tools gathered so far and,   *)
(* as a ghost, what list_tools did for each server (trace).                 *)

MaxServers == 2

(* the lists of servers handed to an assembly: no server twice *)
ServerLists ==
    {l \in SeqsUpTo(CacheServers, MaxServers) :
        \A i, j \in 1..Len(l) : l[i] = l[j] => i = j}

AssemblyKinds == {"get_all_tools", "collect_mcp_tools"}

(* the tools gathered so far are thrown away *)
ExtendReplaces(all_tools, tools) == tools

(* all_tools.extend(tools) *)
Extend(all_tools, tools) == all_tools \o tools

(* what one server adds: get_all_tools takes the list as list_tools        *)
(* returned it, collect_mcp_tools filters it with _filter_disabled_tools   *)
Contribution(kind, tools, server) ==
    IF kind = "collect_mcp_tools"
    THEN FilterDisabled(tools, server.disabled_tools)
    ELSE tools

(* the loop body after list_tools has returned `tools` for `server` *)
Took(l, server, source, tools) ==
    [l EXCEPT !.at = @ + 1,
              !.awaiting = FALSE,
              !.all_tools = Extend(@, Contribution(l.kind, tools, server)),
              !.trace = Append(@, [server |-> server, source |-> source,
                                   listed |-> tools])]

AssemblyStart(kind, servers) ==
    /\ pc \in {"idle", "service"}
    /\ locals = NoLocals
    /\ pc' = "service"
    /\ outcome' = NoOutcome
    /\ locals' = [frame |-> "assembly", kind |-> kind, servers |-> servers,
                  at |-> 1, awaiting |-> FALSE, all_tools |-> <<>>,
                  trace |-> <<>>]
    /\ UNCHANGED <<parse_input, chunks, tool_cache, cache_ttl, now, pending>>
    /\ UNCHANGED <<server_configs, max_iterations, mcp_tools, current_messages,
                   iteration, llm_response, tool_calls, next_call, inflight,
                   tool_results, tool_responses, gathered, events>>

(* list_tools for the next server, up to its return from the cache or to   *)
(* the await of _list_tools_impl                                            *)
AssemblyListTools ==
    /\ locals.frame = "assembly"
    /\ ~locals.awaiting
    /\ locals.at <= Len(locals.servers)
    /\ LET server == locals.servers[locals.at]
           key == ServerKey(server)
       IN  IF IsCacheValid(key, cache_ttl, now) /\ key \in DOMAIN tool_cache
           THEN /\ locals' = Took(locals, server, "cache", tool_cache[key])
                /\ UNCHANGED pending
           ELSE /\ locals' = [locals EXCEPT !.awaiting = TRUE]
                /\ pending' = pending \cup {[n |-> 0, server |-> server]}
    /\ UNCHANGED <<parse_input, chunks, tool_cache, cache_ttl, now>>
    /\ UNCHANGED <<server_configs, pc, max_iterations, mcp_tools, current_messages,
                   iteration, llm_response, tool_calls, next_call, inflight,
                   tool_results, tool_responses, gathered, outcome, events>>

(* _list_tools_impl returns to the list_tools call of the assembly: the    *)
(* list is filtered, stored, stamped and handed to the loop                 *)
AssemblyDiscoveryReturns(ok) ==
    /\ locals.frame = "assembly"
    /\ locals.awaiting
    /\ LET server == locals.servers[locals.at]
           key == ServerKey(server)
           found == ListToolsImpl(server, IF ok THEN {server.id} ELSE {})
           tools == FilterDisabled(found, server.disabled_tools)
       IN  /\ tool_cache' = Store(tool_cache, key, tools)
           /\ cache_ttl' = Store(cache_ttl, key, now)
           /\ pending' = pending \ {[n |-> 0, server |-> server]}
           /\ locals' = Took(locals, server,
                             IF ok THEN "discovered" ELSE "failed", tools)
    /\ UNCHANGED <<parse_input, chunks, now>>
    /\ UNCHANGED <<server_configs, pc, max_iterations, mcp_tools, current_messages,
                   iteration, llm_response, tool_calls, next_call, inflight,
                   tool_results, tool_responses, gathered, outcome, events>>

AssemblyReturns ==
    /\ locals.frame = "assembly"
    /\ locals.at > Len(locals.servers)
    /\ outcome' = [kind |-> "assembled", by |-> locals.kind,
                   servers |-> locals.servers, tools |-> locals.all_tools,
                   trace |-> locals.trace]
    /\ locals' = NoLocals
    /\ UNCHANGED <<parse_input, chunks, tool_cache, cache_ttl, now, pending>>
    /\ UNCHANGED <<server_configs, pc, max_iterations, mcp_tools, current_messages,
                   iteration, llm_response, tool_calls, next_call, inflight,
                   tool_results, tool_responses, gathered, events>>

NextAssembly ==
    \/ Tick
    \/ \E kind \in AssemblyKinds, servers \in ServerLists : AssemblyStart(kind, servers)
    \/ AssemblyListTools
    \/ \E ok \in BOOLEAN : AssemblyDiscoveryReturns(ok)
    \/ AssemblyReturns

SpecAssembly == Init /\ [][NextAssembly]_vars

(* what the i-th server of a finished assembly should have added *)
Expected(i) ==
    LET t == outcome.trace[i]
        all == ListToolsImpl(t.server, {t.server.id})
    IN  CASE t.source = "failed" -> <<>>
          [] t.source = "discovered" ->
                SelectSeq(all, LAMBDA tool : tool.name \notin t.server.disabled_tools)
          [] OTHER -> Contribution(outcome.by, t.listed, t.server)

RECURSIVE ExpectedFrom(_)
ExpectedFrom(i) ==
    IF i > Len(outcome.trace) THEN <<>> ELSE Expected(i) \o ExpectedFrom(i + 1)

-----------------------------------------------------------------------------
(* Dispatch, as seen in the rounds of the workflow (callMCPTool) and in    *)
(* the gather batch (call_mcp_tool)                                          *)

(* the positions of the catalog whose descriptor has the name *)
Named(name) == {k \in 1..Len(mcp_tools) : mcp_tools[k].name = name}

FirstNamed(name) == CHOOSE k \in Named(name) : \A h \in Named(name) : k <= h

RoundDispatched == pc = "execute" /\ BatchComplete(next_call, tool_calls, inflight)

OneText(response, text) ==
    /\ response.isError
    /\ response.content = <<[type |-> "text", text |-> text]>>

(* C22: dispatching an intent whose name matches no descriptor of the      *)
(* catalog, the empty catalog included, returns an error-flagged response   *)
(* describing tool not found, never raises, and does not invoke the         *)
(* call-tool collaborator.                                                   *)
C22_UnknownToolIsAnErrorResponse ==
    /\ RoundDispatched =>
           /\ Len(tool_results) = Len(tool_calls)
           /\ \A i \in 1..Len(tool_calls) :
                  Named(tool_calls[i].tool.name) = {} =>
                      /\ OneText(tool_results[i],
                                 <<"Error calling tool", tool_calls[i].tool.name,
                                   "Tool not found">>)
                      /\ ~Invoked(i)
    /\ outcome.kind = "batch" =>
           /\ Len(outcome.results) = Len(tool_calls)
           /\ \A i \in 1..Len(tool_calls) :
                  Named(tool_calls[i].tool.name) = {} =>
                      /\ OneText(outcome.results[i].metadata.tool_response,
                                 <<"tool not found", tool_calls[i].tool.name>>)
                      /\ ~Invoked(i)

C22_Witness ==
    /\ RoundDispatched
    /\ mcp_tools # <<>>
    /\ Len(tool_calls) = 2
    /\ Named(tool_calls[1].tool.name) = {}
    /\ tool_results[1].isError
    /\ Invoked(2)
    /\ ~tool_results[2].isError

Unregistered(name) ==
    /\ Named(name) # {}
    /\ mcp_tools[FirstNamed(name)].server_id \notin DOMAIN server_configs

(* C23: dispatching an intent whose matching descriptor names a server id  *)
(* that is not in the server registry returns an error-flagged response     *)
(* describing server not found, never raises, and does not invoke the       *)
(* call-tool collaborator.                                                   *)
C23_UnregisteredServerIsAnErrorResponse ==
    /\ RoundDispatched =>
           /\ Len(tool_results) = Len(tool_calls)
           /\ \A i \in 1..Len(tool_calls) :
                  Unregistered(tool_calls[i].tool.name) =>
                      /\ OneText(tool_results[i],
                                 <<"Error calling tool", tool_calls[i].tool.name,
                                   "Server not found">>)
                      /\ ~Invoked(i)
    /\ outcome.kind = "batch" =>
           /\ Len(outcome.results) = Len(tool_calls)
           /\ \A i \in 1..Len(tool_calls) :
                  Unregistered(tool_calls[i].tool.name) =>
                      /\ OneText(outcome.results[i].metadata.tool_response,
                                 <<"server config not found",
                                   mcp_tools[FirstNamed(tool_calls[i].tool.name)].server_id>>)
                      /\ ~Invoked(i)

C23_Witness ==
    /\ outcome.kind = "batch"
    /\ Len(tool_calls) = 2
    /\ server_configs # <<>>
    /\ Unregistered(tool_calls[1].tool.name)
    /\ outcome.results[1].metadata.is_error
    /\ Unregistered(tool_calls[2].tool.name)

(* C24: when several descriptors of the catalog have the intent's name,    *)
(* dispatch resolves to the first of them in catalog order and invokes the  *)
(* call-tool collaborator on that descriptor's server only, the same one on *)
(* every dispatch of that name against that catalog.                         *)
C24_FirstMatchWins ==
    \A p \in Positions("tool_call") :
        /\ Named(events[p].name) # {}
        /\ events[p].server = mcp_tools[FirstNamed(events[p].name)].server_id
        /\ \A q \in Positions("tool_call") :
               (events[q].round = events[p].round /\ events[q].index = events[p].index)
                   => q = p

C24_Witness ==
    /\ InWorkflow
    /\ Cardinality(Named(NameSearch)) = 2
    /\ \E p, q \in Positions("tool_call") :
           /\ p < q
           /\ events[p].name = NameSearch
           /\ events[q].name = NameSearch
           /\ events[p].server = "s2"
           /\ events[q].server = "s2"

(* the intent's argument map without the keys whose value is null, an     *)
(* empty or whitespace-only string, or an empty list                         *)
Meaningful(arguments) ==
    LET noise == {k \in DOMAIN arguments :
                     \/ arguments[k] = JNull
                     \/ arguments[k].type = "str" /\ Strip(arguments[k].s) = <<>>
                     \/ arguments[k] = JList(0)}
    IN  [k \in DOMAIN arguments \ noise |-> arguments[k]]

(* C25: whenever the call-tool collaborator is invoked, through            *)
(* callMCPTool and through call_mcp_tool as used by parse_and_call_tools,   *)
(* the forwarded argument map is the intent's map minus the keys whose      *)
(* value is null, an empty or whitespace-only string, or an empty list;     *)
(* every other key is forwarded unchanged.                                   *)
C25_ForwardedArgumentsAreCleaned ==
    pc \in {"execute", "gather"} =>
        \A p \in Positions("tool_call") :
            events[p].round = iteration =>
                events[p].arguments
                    = Meaningful(tool_calls[events[p].index].tool.arguments)

(* C26: when the call-tool collaborator raises for a dispatched intent,    *)
(* dispatch returns a response with isError true whose content is exactly   *)
(* one text item carrying the exception message; no exception of the        *)
(* dispatch reaches the dispatcher's caller.                                 *)
C26_InvocationFailureIsAnErrorResponse ==
    /\ RoundDispatched =>
           /\ Len(tool_results) = Len(tool_calls)
           /\ \A i \in 1..Len(tool_calls) :
                  Failed(i) =>
                      OneText(tool_results[i],
                              <<"Error calling tool", tool_calls[i].tool.name,
                                RawRaise.message>>)
    /\ outcome.kind = "batch" =>
           /\ Len(outcome.results) = Len(tool_calls)
           /\ \A i \in 1..Len(tool_calls) :
                  Failed(i) =>
                      OneText(outcome.results[i].metadata.tool_response,
                              <<"tool call failed", RawRaise.message>>)
    /\ outcome.kind \in {"raised", "batch_raised"} =>
           \A p \in Positions("tool_call") : events[p].round # iteration

C26_Witness ==
    /\ RoundDispatched
    /\ Len(tool_calls) = 2
    /\ Failed(1)
    /\ tool_results[1].isError
    /\ Invoked(2)
    /\ ~Failed(2)
    /\ ~tool_results[2].isError

-----------------------------------------------------------------------------
(* build_system_prompt on its own.  A prompt is a sequence of tokens:      *)
(* ordinary text, the three placeholders of the template, the separator     *)
(* of the template, the usage-protocol block and one listing token per      *)
(* tool.  str.replace is computed token by token.                            *)

MaxPromptLen == 3

PUserSystemPrompt == [t |-> "placeholder", name |-> "USER_SYSTEM_PROMPT"]
PToolUseExamples == [t |-> "placeholder", name |-> "TOOL_USE_EXAMPLES"]
PAvailableTools == [t |-> "placeholder", name |-> "AVAILABLE_TOOLS"]
BlankLine == [t |-> "blank line"]

SYSTEM_PROMPT_TEMPLATE ==
    <<PUserSystemPrompt, BlankLine, PToolUseExamples, BlankLine, PAvailableTools>>

TOOL_USE_EXAMPLES == <<[t |-> "usage protocol"]>>

build_available_tools_prompt(tools) ==
    IF tools = <<>>
    THEN <<>>
    ELSE <<[t |-> "Available tools:"]>>
         \o [i \in 1..Len(tools) |-> [t |-> "tool", name |-> tools[i].name]]

(* str.replace(old, new): every occurrence of the token is replaced *)
RECURSIVE Replace(_, _, _)
Replace(text, old, new) ==
    IF text = <<>>
    THEN <<>>
    ELSE (IF Head(text) = old THEN new ELSE <<Head(text)>>)
         \o Replace(Tail(text), old, new)

build_system_prompt(user_system_prompt, tools) ==
    IF tools # <<>>
    THEN Replace(Replace(Replace(SYSTEM_PROMPT_TEMPLATE,
                                 PUserSystemPrompt, user_system_prompt),
                         PToolUseExamples, TOOL_USE_EXAMPLES),
                 PAvailableTools, build_available_tools_prompt(tools))
    ELSE user_system_prompt

BasePrompts ==
    SeqsUpTo({Prose, PUserSystemPrompt, PToolUseExamples, PAvailableTools},
             MaxPromptLen)

BuildSystemPrompt(base, tools) ==
    /\ pc = "idle"
    /\ locals = NoLocals
    /\ pc' = "prompt"
    /\ locals' = [frame |-> "prompt", user_system_prompt |-> base,
                  tools |-> tools, result |-> build_system_prompt(base, tools)]
    /\ UNCHANGED <<parse_input, chunks, tool_cache, cache_ttl, now, pending>>
    /\ UNCHANGED <<server_configs, max_iterations, mcp_tools, current_messages,
                   iteration, llm_response, tool_calls, next_call, inflight,
                   tool_results, tool_responses, gathered, outcome, events>>

NextPrompt ==
    \E base \in BasePrompts, tools \in ParseCatalogs : BuildSystemPrompt(base, tools)

SpecPrompt == Init /\ [][NextPrompt]_vars

(* C27: build_system_prompt returns the base prompt unchanged when the     *)
(* catalog is empty or absent; for a non-empty catalog its result is the    *)
(* base prompt verbatim, then the fixed usage-protocol block, then the      *)
(* tool listing, in that order, for every base prompt, also one that        *)
(* contains the text of a template placeholder.                              *)
C27_BasePromptIsKeptVerbatim ==
    locals.frame = "prompt" =>
        IF locals.tools = <<>>
        THEN locals.result = locals.user_system_prompt
        ELSE locals.result
                 = locals.user_system_prompt
                   \o <<BlankLine, [t |-> "usage protocol"], BlankLine,
                        [t |-> "Available tools:"]>>
                   \o [i \in 1..Len(locals.tools) |->
                          [t |-> "tool", name |-> locals.tools[i].name]]

-----------------------------------------------------------------------------
(* ChatMCPClient.chat *)

MaxMessages == 2

ChatRequests ==
    [messages : SeqsUpTo({SystemMessage, UserMessage}, MaxMessages),
     enabled_mcps : EnabledLists]

DefaultSystemMessage == Message("system", <<[t |-> "You are a helpful assistant."]>>,
                                <<>>, <<>>)

HasSystemMessage(messages) ==
    \E i \in 1..Len(messages) : messages[i].role = "system"

(* the default system message inserted into request.messages itself *)
PrepareMessagesInPlace(request_messages) ==
    LET messages == IF HasSystemMessage(request_messages)
                    THEN request_messages
                    ELSE <<DefaultSystemMessage>> \o request_messages
    IN  [request_messages |-> messages, messages |-> messages]

(* messages = request.messages.copy(), then the insert at 0 into the copy: *)
(* the request's list and the list handed to the provider, after the lines. *)
PrepareMessages(request_messages) ==
    [request_messages |-> request_messages,
     messages |-> IF HasSystemMessage(request_messages)
                  THEN request_messages
                  ELSE <<DefaultSystemMessage>> \o request_messages]

(* What the injected provider's completions can do: raise with a text, or   *)
(* be AIProvider.completions around an outcome of litellm.                   *)
ProviderOutcomes ==
    [raises : {TRUE}, error : {ErrPlain, ErrBlock, ErrArray}]
    \cup [raises : {FALSE}, o : CompletionOutcomes]

(* dict.update *)
Update(metadata, entries) ==
    [k \in DOMAIN metadata \cup DOMAIN entries |->
        IF k \in DOMAIN entries THEN entries[k] ELSE metadata[k]]

(* the try branch after the await: the metadata of the response is extended *)
ChatComplete(response, request, tools) ==
    [response EXCEPT !.message.metadata =
        Update(response.message.metadata,
               [enabled_servers |-> Len(request.enabled_mcps),
                collected_tools_count |-> Len(tools),
                step |-> 3,
                stage |-> "ai_provider_integration_complete"])]

(* the except branch *)
ChatError(error, request, tools) ==
    [message |->
        Message("assistant", <<[t |-> "chat failed"]>> \o error,
                [error |-> error,
                 collected_tools_count |-> Len(tools),
                 enabled_servers |-> Len(request.enabled_mcps),
                 step |-> 3,
                 stage |-> "ai_provider_integration_error"],
                <<>>),
     usage |-> [error |-> TRUE],
     metrics |-> [step |-> 3, status |-> "chat_execution_error"]]

(* chat up to the await of the provider: tools collected, messages prepared *)
ChatStart(request, reachable) ==
    /\ pc = "idle"
    /\ locals = NoLocals
    /\ pc' = "provider"
    /\ LET prepared == PrepareMessages(request.messages)
       IN  locals' = [frame |-> "chat",
                      given |-> request.messages,
                      request |-> [request EXCEPT
                                      !.messages = prepared.request_messages],
                      messages |-> prepared.messages,
                      mcp_tools |-> collect_mcp_tools(request.enabled_mcps,
                                                      reachable)]
    /\ outcome' = NoOutcome
    /\ UNCHANGED <<parse_input, chunks, tool_cache, cache_ttl, now, pending>>
    /\ UNCHANGED <<server_configs, max_iterations, mcp_tools, current_messages,
                   iteration, llm_response, tool_calls, next_call, inflight,
                   tool_results, tool_responses, gathered, events>>

(* the provider's completions returns or raises; chat returns *)
ChatProviderReturns(p) ==
    /\ pc = "provider"
    /\ locals.frame = "chat"
    /\ pc' = "chat returned"
    /\ outcome' = [kind |-> "returned",
                   provider |-> p,
                   response |->
                       IF p.raises
                       THEN ChatError(p.error, locals.request, locals.mcp_tools)
                       ELSE ChatComplete(completions(p.o, locals.mcp_tools),
                                         locals.request, locals.mcp_tools)]
    /\ UNCHANGED locals
    /\ UNCHANGED <<parse_input, chunks, tool_cache, cache_ttl, now, pending>>
    /\ UNCHANGED <<server_configs, max_iterations, mcp_tools, current_messages,
                   iteration, llm_response, tool_calls, next_call, inflight,
                   tool_results, tool_responses, gathered, events>>

NextChat ==
    \/ \E request \in ChatRequests, reachable \in SUBSET {"s1", "s2"} :
          ChatStart(request, reachable)
    \/ \E p \in ProviderOutcomes : ChatProviderReturns(p)

SpecChat == Init /\ [][NextChat]_vars

IsInfix(part, text) ==
    \E i \in 0..(Len(text) - Len(part)) :
        SubSeq(text, i + 1, i + Len(part)) = part

(* C28: when the provider's completions call raises, chat does not raise:  *)
(* it returns a response whose message has role assistant, a content that   *)
(* contains the failure text and a metadata with an 'error' entry that is   *)
(* not None, and request.messages is what the caller passed in.             *)
C28_ProviderFailureIsAnErrorResponse ==
    (pc = "chat returned" /\ outcome.provider.raises) =>
        /\ outcome.kind = "returned"
        /\ outcome.response.message.role = "assistant"
        /\ IsInfix(outcome.provider.error, outcome.response.message.content)
        /\ "error" \in DOMAIN outcome.response.message.metadata
        /\ outcome.response.message.metadata.error # <<>>
        /\ locals.request.messages = locals.given

C28_Witness ==
    /\ pc = "chat returned"
    /\ outcome.provider.raises
    /\ ~HasSystemMessage(locals.given)
    /\ locals.given # <<>>
    /\ locals.messages # locals.given
    /\ locals.mcp_tools # <<>>

-----------------------------------------------------------------------------
(* complete_mcp_workflow under a fair scheduler *)

(* The event loop resumes a coroutine that can run: the steps of the       *)
(* workflow itself are weakly fair. Every awaited completion call and tool  *)
(* invocation comes back, with a result or an exception: the returns of     *)
(* the two collaborators are weakly fair.                                   *)
WorkflowFairness ==
    /\ WF_vars(IssueCompletion)
    /\ WF_vars(\E o \in CompletionOutcomes : CompletionReturns(o))
    /\ WF_vars(ExecuteNext)
    /\ WF_vars(\E i \in 1..MaxBatch, raw \in ToolOutcomes : ToolReturns(i, raw))
    /\ WF_vars(FoldResults)
    /\ WF_vars(LoopExit)

SpecLive == Spec /\ WorkflowFairness

(* C29: when every completion call and every tool invocation comes back,   *)
(* a run of complete_mcp_workflow, whatever its max_iterations and also     *)
(* when every round's completion requests tools, comes to its end: control  *)
(* goes back to the caller, by the return of a response or by an exception  *)
(* leaving the function.                                                     *)
C29_WorkflowTerminates == InWorkflow ~> WorkflowEnded

C29_Witness ==
    /\ pc = "returned"
    /\ outcome.kind = "returned"
    /\ outcome.line = 900
    /\ max_iterations = MaxIterationsBound
    /\ Cardinality(Positions("llm_call")) = max_iterations
    /\ Cardinality(Positions("tool_ret")) >= max_iterations

(* C30: the combined catalog is assembled at the start of every round:    *)
(* while the completion call of round r is awaited, the catalog has been    *)
(* assembled r + 1 times, once for each round started so far.               *)
C30_CatalogAssembledEveryRound ==
    pc = "completion" => locals.collected = iteration + 1

-----------------------------------------------------------------------------
(* The messages AIProvider.completions hands to litellm *)

(* lines 508-527: a system-role message is rebuilt around the catalog,     *)
(* every other message is passed on with its role and content.              *)
ProcessedMessages(messages, tools) ==
    [i \in 1..Len(messages) |->
        IF messages[i].role = "system" /\ tools # <<>>
        THEN [role |-> "system",
              content |-> build_system_prompt(messages[i].content, tools)]
        ELSE [role |-> messages[i].role, content |-> messages[i].content]]

Announces(message, tools) ==
    /\ message.role = "system"
    /\ IsInfix(TOOL_USE_EXAMPLES, message.content)
    /\ IsInfix(build_available_tools_prompt(tools), message.content)

(* C31: in every round with a non-empty catalog, the message list sent to  *)
(* the completion collaborator holds the usage-protocol block and the tool  *)
(* listing, also when the transcript handed to complete_mcp_workflow has    *)
(* no system-role message.                                                   *)
C31_EveryRoundAnnouncesTheTools ==
    (pc = "completion" /\ mcp_tools # <<>>) =>
        \E i \in 1..Len(current_messages) :
            Announces(ProcessedMessages(current_messages, mcp_tools)[i], mcp_tools)

-----------------------------------------------------------------------------
(* list_tools calls for one fingerprint that overlap at the await *)

MaxRaceCalls == 3

(* two servers with the same command and args *)
RaceServers == {S2, S3}

RaceListTools(server) ==
    /\ ListCalls < MaxRaceCalls
    /\ ListToolsBegin(server)

NextRace ==
    \/ Tick
    \/ \E server \in RaceServers : RaceListTools(server)
    \/ \E n \in 1..MaxRaceCalls, server \in RaceServers, ok \in BOOLEAN :
          ListToolsFinish([n |-> n, server |-> server], ok)

SpecRace == Init /\ [][NextRace]_vars

Discoveries == {i \in 1..Len(events) : events[i].e = "discover"}

Stores == {i \in Returned : ~events[i].hit}

(* the pending call raced: another miss for its key is still awaited, or   *)
(* one has stored its result since this call began its discovery            *)
Overlapped(call) ==
    \/ \E other \in pending \ {call} :
           ServerKey(other.server) = ServerKey(call.server)
    \/ \E d \in Discoveries, i \in Stores :
           /\ events[d].server = call.server
           /\ \A later \in Discoveries :
                  events[later].server = call.server => later <= d
           /\ Cardinality({c \in pending : c.server = call.server}) = 1
           /\ d < i
           /\ ServerKey(events[i].server) = ServerKey(call.server)

(* two misses for the key of s overlapped and every miss for it is done *)
RaceSettled(s) ==
    /\ \A call \in pending : ServerKey(call.server) # ServerKey(s)
    /\ \E d1 \in Discoveries, d2 \in Discoveries :
           /\ d1 < d2
           /\ ServerKey(events[d1].server) = ServerKey(s)
           /\ ServerKey(events[d2].server) = ServerKey(s)
           /\ \A i \in Stores : ~(d1 < i /\ i < d2)

(* C32: when list_tools calls for one fingerprint miss and discover at the *)
(* same time, each of them completes with a list, the cache then holds the  *)
(* filtered result and the timestamp of the call that finished last, and a  *)
(* later call within the TTL of that timestamp is served from the cache     *)
(* without discovery.                                                        *)
C32_ConcurrentMissesAreLastWriteWins ==
    [][/\ \A call \in pending :
              (pending' = pending \ {call} /\ Overlapped(call)) =>
                  /\ events'[Len(events')].e = "list_ret"
                  /\ events'[Len(events')].server = call.server
                  /\ tool_cache'[ServerKey(call.server)]
                         = events'[Len(events')].tools
                  /\ cache_ttl'[ServerKey(call.server)] = now
       /\ \A s \in RaceServers :
              (/\ StartsFor(s)
               /\ RaceSettled(s)
               /\ now - events[LastStoreLike(s)].at < CacheDuration)
              => /\ ServedFromCache(s)
                 /\ events'[Len(events')].tools = events[LastStoreLike(s)].tools
                 /\ cache_ttl[ServerKey(s)] = events[LastStoreLike(s)].at]_vars

C32_Witness ==
    /\ Len(events) = 5
    /\ events[1].e = "discover"
    /\ events[2].e = "discover"
    /\ events[3].e = "list_ret" /\ ~events[3].hit
    /\ events[4].e = "list_ret" /\ ~events[4].hit
    /\ events[4].tools # events[3].tools
    /\ events[4].at > events[3].at
    /\ events[5].e = "list_ret" /\ events[5].hit
    /\ events[5].tools = events[4].tools
    /\ events[5].at > events[4].at

-----------------------------------------------------------------------------
(* The registry records of one parse_and_call_tools batch *)

InBatch ==
    \/ pc = "gather"
    \/ pc = "returned" /\ outcome.kind = "batch" /\ outcome.results # <<>>

RecordsOf(i) ==
    {k \in 1..Len(tool_responses) :
        tool_responses[k].id = ResponseId(tool_calls[i], iteration, i)}

RecordOf(i) == tool_responses[CHOOSE k \in RecordsOf(i) : TRUE]

Finished(i) == i \in DOMAIN gathered

BatchRecordsAreConsistent ==
    InBatch =>
        \A i \in 1..Len(tool_calls) :
            /\ Cardinality(RecordsOf(i)) = 1
            /\ RecordOf(i).status \in {"invoking", "done", "error"}
            /\ RecordOf(i).status = "invoking" <=> ~Finished(i)
            /\ Finished(i) =>
                   /\ RecordOf(i).status = "done"
                          <=> ~gathered[i].metadata.is_error
                   /\ RecordOf(i).status = "error"
                          <=> (gathered[i].metadata.is_error
                               /\ RecordOf(i).error # "None")
            /\ pc = "returned" => RecordOf(i).status # "invoking"

-----------------------------------------------------------------------------
(* MCPChatTool: start_mcp_server and chat_with_mcp *)

MaxStarts == 2
MaxEasyIterations == 1

(* start_mcp_server builds MCPServer(id, name, command, args, env): no     *)
(* disabled tools. E3 is launched like E2 under another id.                 *)
E1 == [S1 EXCEPT !.disabled_tools = {}]
E2 == [S2 EXCEPT !.disabled_tools = {}]
E3 == [S3 EXCEPT !.disabled_tools = {}]

EasyServers == {E1, E2, E3}

EasyIdLists == {<<>>, <<"s1">>, <<"s2", "s1">>, <<"s3", "s2">>, <<"s9">>}

EasyReachable == {{}, {"s1"}, {"s1", "s2", "s3"}}

NoEasy == [frame |-> "easy", managed_servers |-> <<>>, starts |-> 0,
           last_start |-> <<>>, enabled |-> <<>>, discovered |-> <<>>]

EasyLocals == IF locals.frame = "easy" THEN locals ELSE NoEasy

(* self.managed_servers[server_id] = server, on a dict that keeps the      *)
(* order of first insertion                                                  *)
PutServer(managed, server) ==
    IF \E i \in 1..Len(managed) : managed[i].id = server.id
    THEN [i \in 1..Len(managed) |->
             IF managed[i].id = server.id THEN server ELSE managed[i]]
    ELSE Append(managed, server)

(* MCPService.list_tools as one step, on the cache and the clock given:    *)
(* _list_tools_impl answers [] for a server it cannot reach, and nothing    *)
(* in list_tools raises.                                                     *)
ServiceListTools(server, cache, ttl, time, ok) ==
    LET key == ServerKey(server)
    IN  IF IsCacheValid(key, ttl, time) /\ key \in DOMAIN cache
        THEN [raised |-> FALSE, tools |-> cache[key], discovered |-> FALSE,
              cache |-> cache, ttl |-> ttl]
        ELSE LET tools == FilterDisabled(
                              ListToolsImpl(server,
                                            IF ok THEN {server.id} ELSE {}),
                              server.disabled_tools)
             IN  [raised |-> FALSE, tools |-> tools, discovered |-> TRUE,
                  cache |-> Store(cache, key, tools),
                  ttl |-> Store(ttl, key, time)]

(* start_mcp_server: the configuration is registered, the tools are listed *)
(* through get_mcp_service(), and the server is kept unless that raised.    *)
StartMcpServer(server, ok) ==
    /\ pc \in {"idle", "service"}
    /\ outcome = NoOutcome
    /\ EasyLocals.starts < MaxStarts
    /\ pc' = "service"
    /\ server_configs' = Store(server_configs, server.id, server)
    /\ LET r == ServiceListTools(server, tool_cache, cache_ttl, now, ok)
       IN  /\ tool_cache' = r.cache
           /\ cache_ttl' = r.ttl
           /\ locals' = [EasyLocals EXCEPT
                            !.starts = @ + 1,
                            !.managed_servers =
                                IF r.raised THEN @ ELSE PutServer(@, server),
                            !.last_start =
                                <<[server |-> server,
                                   reachable |-> ok,
                                   discovered |-> r.discovered,
                                   tools |-> r.tools,
                                   raised |-> r.raised]>>]
    /\ UNCHANGED <<parse_input, chunks, now, pending>>
    /\ UNCHANGED <<max_iterations, mcp_tools, current_messages, iteration,
                   llm_response, tool_calls, next_call, inflight, tool_results,
                   tool_responses, gathered, outcome, events>>

(* lines 127-134: None enables every managed server, a list of ids those  *)
(* of its ids that are managed, in the list's order                         *)
EnabledServers(managed, all, ids) ==
    IF all
    THEN managed
    ELSE LET pick(id) == SelectSeq(managed, LAMBDA m : m.id = id)
             RECURSIVE picks(_)
             picks(rest) == IF rest = <<>> THEN <<>>
                            ELSE pick(Head(rest)) \o picks(Tail(rest))
         IN  picks(ids)

(* the servers for which collect_mcp_tools, on the fresh service of its    *)
(* collector, ran discovery: the first of each fingerprint                  *)
Discovered(enabled) ==
    SelectSeq([i \in 1..Len(enabled) |->
                  [server |-> enabled[i],
                   first |-> \A j \in 1..(i - 1) :
                                 ServerKey(enabled[j]) # ServerKey(enabled[i])]],
              LAMBDA d : d.first)

NoServersResult ==
    [content |-> <<[t |-> "no servers"]>>, tool_calls |-> <<>>, usage |-> <<>>,
     error |-> "no_servers"]

(* lines 169-175; the token usage of a response is left out of the model *)
ResultOf(response) ==
    [content |-> response.message.content,
     tool_calls |-> response.message.tool_calls,
     usage |-> <<>>,
     metadata |-> response.message.metadata,
     metrics |-> response.metrics]

(* lines 177-184 *)
ErrorResult(error) ==
    [content |-> <<[t |-> "chat error", error |-> error]>>, tool_calls |-> <<>>,
     usage |-> <<>>, error |-> error]

(* chat_with_mcp up to the loop of complete_mcp_workflow *)
ChatWithMcpStart(all, ids, n, reachable) ==
    /\ pc \in {"idle", "service"}
    /\ outcome = NoOutcome
    /\ LET enabled == EnabledServers(EasyLocals.managed_servers, all, ids)
       IN  IF enabled = <<>>
           THEN /\ pc' = "chat returned"
                /\ outcome' = [kind |-> "chat_with_mcp", raised |-> FALSE,
                               result |-> NoServersResult]
                /\ locals' = EasyLocals
                /\ UNCHANGED <<max_iterations, mcp_tools, current_messages,
                               iteration, llm_response>>
           ELSE /\ pc' = "loop"
                /\ max_iterations' = n
                /\ mcp_tools' = collect_mcp_tools(enabled, reachable)
                /\ current_messages' = <<SystemMessage, UserMessage>>
                /\ iteration' = 0
                /\ llm_response' = Unbound
                /\ locals' = [EasyLocals EXCEPT
                                 !.enabled = enabled,
                                 !.discovered = Discovered(enabled)]
                /\ UNCHANGED outcome
    /\ UNCHANGED <<parse_input, chunks, tool_cache, cache_ttl, now, pending>>
    /\ UNCHANGED <<server_configs, tool_calls, next_call, inflight, tool_results,
                   tool_responses, gathered, events>>

(* complete_mcp_workflow has returned or raised: lines 169-184 *)
ChatWithMcpReturns ==
    /\ pc \in {"returned", "raised"}
    /\ locals.frame = "easy"
    /\ pc' = "chat returned"
    /\ outcome' = [kind |-> "chat_with_mcp", raised |-> FALSE,
                   workflow |-> outcome,
                   result |-> IF outcome.kind = "returned"
                              THEN ResultOf(outcome.response)
                              ELSE ErrorResult(outcome.error)]
    /\ UNCHANGED locals
    /\ UNCHANGED <<parse_input, chunks, tool_cache, cache_ttl, now, pending>>
    /\ UNCHANGED <<server_configs, max_iterations, mcp_tools, current_messages,
                   iteration, llm_response, tool_calls, next_call, inflight,
                   tool_results, tool_responses, gathered, events>>

NextEasy ==
    \/ Tick
    \/ \E server \in EasyServers, ok \in BOOLEAN : StartMcpServer(server, ok)
    \/ \E all \in BOOLEAN, ids \in EasyIdLists, n \in 0..MaxEasyIterations,
          reachable \in EasyReachable : ChatWithMcpStart(all, ids, n, reachable)
    \/ IssueCompletion
    \/ \E o \in CompletionOutcomes : CompletionReturns(o)
    \/ ExecuteNext
    \/ \E i \in 1..MaxBatch, raw \in ToolOutcomes : ToolReturns(i, raw)
    \/ FoldResults
    \/ LoopExit
    \/ ChatWithMcpReturns

SpecEasy == Init /\ [][NextEasy]_vars

(* the process-wide service holds an entry for the server that is within  *)
(* its TTL                                                                   *)
FreshInTheSharedCache(server) ==
    /\ IsCacheValid(ServerKey(server), cache_ttl, now)
    /\ ServerKey(server) \in DOMAIN tool_cache

(* C34: the tool cache is shared process-wide: in a chat_with_mcp call, a  *)
(* server whose tools start_mcp_server has listed and whose cache entry is  *)
(* within the TTL has its part of the catalog taken from that entry, and    *)
(* discovery is not invoked for it again.                                    *)
C34_ChatUsesTheSharedCache ==
    (locals.frame = "easy" /\ locals.enabled # <<>>) =>
        \A i \in 1..Len(locals.discovered) :
            ~FreshInTheSharedCache(locals.discovered[i].server)


ChatWithMcpDone == pc = "chat returned" /\ outcome.kind = "chat_with_mcp"

(* the model or a tool server failed in the run, or the workflow raised *)
SomethingFailed ==
    \/ \E p \in Positions("llm_ret") : events[p].failed
    \/ \E p \in Positions("tool_ret") : events[p].failed
    \/ "workflow" \in DOMAIN outcome /\ outcome.workflow.kind = "raised"

(* C35: chat_with_mcp never raises and always returns a dict with a        *)
(* 'content' entry, for every max_iterations >= 0, every list of enabled    *)
(* ids and every failure of the model or of the tool servers; a failure is  *)
(* reported through the 'error' entry of the returned dict.                  *)
C35_ChatWithMcpReportsFailures ==
    ChatWithMcpDone =>
        /\ ~outcome.raised
        /\ "content" \in DOMAIN outcome.result
        /\ SomethingFailed => "error" \in DOMAIN outcome.result

-----------------------------------------------------------------------------
(* C36: every descriptor that list_tools returns for a server names that   *)
(* server as its owner, also when a server with the same command and args   *)
(* and another id was listed before, so that a tool from the catalog of an  *)
(* enabled server is dispatched with that server's configuration.           *)
C36_DescriptorsNameTheListedServer ==
    \A i \in Returned :
        \A k \in 1..Len(events[i].tools) :
            events[i].tools[k].server_id = events[i].server.id


(* C37: in every state of an MCPService that a coroutine can observe,      *)
(* whatever the interleaving of the list_tools calls in progress, the list  *)
(* map and the timestamp map have the same keys.                             *)
C37_CacheMapsHaveTheSameKeys == DOMAIN tool_cache = DOMAIN cache_ttl

C37_Witness ==
    /\ DOMAIN tool_cache # {}
    /\ \E call \in pending : ServerKey(call.server) \notin DOMAIN tool_cache
    /\ \E i \in Stores : events[i].tools = <<>>


(* the last discovery stored for the fingerprint of s had failed: its list *)
(* is empty                                                                  *)
LastDiscoveryFailed(s) ==
    /\ StoresLike(s) # {}
    /\ events[LastStoreLike(s)].tools = <<>>

(* C38: a failed discovery is cached like a successful one: a list_tools   *)
(* call for the fingerprint made less than 300 seconds after list_tools     *)
(* returned the empty sequence of a failed discovery returns the empty      *)
(* sequence and invokes no discovery, whatever the server's state is now.   *)
C38_FailedDiscoveryIsCached ==
    [][\A s \in CacheServers :
          (/\ StartsFor(s)
           /\ LastDiscoveryFailed(s)
           /\ now - events[LastStoreLike(s)].at < CacheDuration)
          => /\ ServedFromCache(s)
             /\ events'[Len(events')].hit
             /\ events'[Len(events')].tools = <<>>
             /\ Discoveries' = Discoveries]_vars

C38_Witness ==
    /\ Len(events) = 3
    /\ events[1].e = "discover"
    /\ events[2].e = "list_ret" /\ ~events[2].hit /\ events[2].tools = <<>>
    /\ events[3].e = "list_ret" /\ events[3].hit /\ events[3].tools = <<>>
    /\ events[3].server = events[1].server
    /\ events[3].at > events[2].at

-----------------------------------------------------------------------------
(* The server registry and the IPC operations on servers *)

(* descriptors that share ids: S1 and E1 are both "s1" *)
RegistryServers == {S1, S2, S3, E2, E3}

RegistryIds == {"s1", "s2", "s3", "s9"}

(* the entry of the id is deleted *)
RemoveServerDeletes(configs, server_id) ==
    [id \in DOMAIN configs \ {server_id} |-> configs[id]]

(* the try block of remove_server, stop_server and restart_server: a log   *)
(* line, nothing else                                                        *)
RemoveServerEffect(configs, server_id) == configs

NoRegistryOp == [frame |-> "registry", op |-> "none", overwritten |-> {}]

RegistryLocals == IF locals.frame = "registry" THEN locals ELSE NoRegistryOp

(* MCPIPCHandler.add_server: register_server_config(server), True *)
AddServer(server) ==
    /\ pc = "idle"
    /\ server_configs' = Store(server_configs, server.id, server)
    /\ locals' = [frame |-> "registry", op |-> "add_server",
                  server |-> server, server_id |-> server.id, result |-> TRUE,
                  overwritten |->
                      RegistryLocals.overwritten
                      \cup (IF /\ server.id \in DOMAIN server_configs
                               /\ server_configs[server.id] # server
                            THEN {server.id} ELSE {})]
    /\ UNCHANGED <<parse_input, chunks, tool_cache, cache_ttl, now, pending>>
    /\ UNCHANGED <<pc, max_iterations, mcp_tools, current_messages, iteration,
                   llm_response, tool_calls, next_call, inflight, tool_results,
                   tool_responses, gathered, outcome, events>>

(* remove_server, stop_server, restart_server *)
ServerOp(op, server_id) ==
    /\ pc = "idle"
    /\ server_configs' = RemoveServerEffect(server_configs, server_id)
    /\ locals' = [frame |-> "registry", op |-> op, server_id |-> server_id,
                  result |-> TRUE, overwritten |-> RegistryLocals.overwritten]
    /\ UNCHANGED <<parse_input, chunks, tool_cache, cache_ttl, now, pending>>
    /\ UNCHANGED <<pc, max_iterations, mcp_tools, current_messages, iteration,
                   llm_response, tool_calls, next_call, inflight, tool_results,
                   tool_responses, gathered, outcome, events>>

RemoveServer(server_id) ==
    /\ server_id \in RegistryIds
    /\ ServerOp("remove_server", server_id)

StopServer(server_id) ==
    /\ server_id \in RegistryIds
    /\ ServerOp("stop_server", server_id)

RestartServer(server_id) ==
    /\ server_id \in RegistryIds
    /\ ServerOp("restart_server", server_id)


NextRegistry ==
    \/ \E server \in RegistryServers : AddServer(server)
    \/ \E server_id \in RegistryIds : RemoveServer(server_id)
    \/ \E server_id \in RegistryIds : StopServer(server_id)
    \/ \E server_id \in RegistryIds : RestartServer(server_id)

SpecRegistry == Init /\ [][NextRegistry]_vars

-----------------------------------------------------------------------------
(* a start_mcp_server call has just ended whose discovery had failed *)
StartedWithFailedDiscovery ==
    /\ locals'.frame = "easy"
    /\ locals'.starts = EasyLocals.starts + 1
    /\ locals'.last_start[1].discovered
    /\ ~locals'.last_start[1].reachable

(* C40: start_mcp_server keeps a server only when its connection test      *)
(* succeeds: when tool discovery for the server fails, the call raises and  *)
(* managed_servers is left without the server.                               *)
C40_FailedStartIsNotManaged ==
    [][StartedWithFailedDiscovery =>
           /\ locals'.last_start[1].raised
           /\ locals'.managed_servers = EasyLocals.managed_servers]_vars

====
